---- MODULE Spec2Model ----
(***************************************************************************)
(* Verification model of the BelexEmailer acquisition pipeline:            *)
(*   - fetchWithRetries   (src/pdfAlertTracker.js, fetchHelpers)           *)
(*   - the Puppeteer browser session and page pool                         *)
(*     (src/Functions/functions.improved.cjs.bak)                          *)
(*   - the IMAP mailbox watcher startImapPolling (same file)               *)
(*   - the price check checkTickersAndAlert, the workers of the mail       *)
(*     handler (src/unnamed/part_002) and savePrices on the prices file    *)
(*   - the news tracker startPdfTracker (src/pdfAlertTracker.js)           *)
(* Each component has specifications of its own (SpecFetch, SpecPool,      *)
(* SpecImap, SpecOrch, SpecPrices, SpecNews, ...) over the variables it    *)
(* owns; the variables of the other components stay at their initial       *)
(* values.                                                                 *)
(* JavaScript runs handlers to completion: one action is one run of code   *)
(* between two suspension points (await, timer, event).                    *)
(***************************************************************************)
EXTENDS Integers, Sequences, FiniteSets, TLC

VARIABLES
    \* ---- fetchWithRetries: one call ----
    retries,        \* the retries option of the call
    attempt,        \* the loop variable
    f_pc,           \* "loop" | "await_fetch" | "sleep" | "returned" | "thrown"
    lastErr,        \* lastErr (NoErr models null)
    thrownErr,      \* the value the call rejected with (NoErr: null / nothing)
    timers,         \* attempts whose setTimeout is still pending
    requests,       \* attempts whose request is still in flight
    attemptsMade,   \* number of fetch() calls issued
    waits,          \* the backoff sleeps, in order: [base, jitter]
    allTransient,   \* every failure so far was classified transient
    lastStatus,     \* HTTP status of the last failed attempt (0: none)
    \* ---- browser session and page pool (module state and its callers) ----
    browser,        \* the module variable browser: NoBrowser (null) or a session
    pagePool,       \* the module variable pagePool: a sequence of pages
    c_pc,           \* per caller of fetchPriceForTicker: where it is suspended
    c_page,         \* per caller: the page it holds (or awaits)
    nextPage,       \* pages created so far (page ids are 1..nextPage)
    launches,       \* sessions launched so far (session ids are 1..launches)
    alive,          \* sessions whose browser process still runs
    sd_pc,          \* closeBrowser: pc "idle" | "closing" (awaiting browser.close()), and the session being closed
    \* ---- startImapPolling: the closure state and what is in flight ----
    stopped,            \* let stopped
    connection,         \* let connection: NoConn (null) or a connection
    pollInterval,       \* let pollInterval: NoTimer (null) or an interval timer
    reconnectTimer,     \* let reconnectTimer: NoTimer (null) or a timeout timer
    reconnectAttempts,  \* let reconnectAttempts
    pollTimers,         \* the interval timers that are really active
    rTimers,            \* the reconnect timeouts that are really pending
    lastDelay,          \* delay of the last setTimeout of scheduleReconnect (0: none yet)
    connecting,         \* connect() activations awaiting imaps.connect
    opening,            \* connections whose connect() activation awaits openBox
    nconns,             \* connections established so far (ids 1..nconns)
    status,             \* per connection: "none" | "open" | "ended" | "closed"
    evLeft,             \* events the connections may still emit
    pendingEnds,        \* safeEndConnection activations awaiting connection.end()
    searching,          \* connections with a poll tick awaiting connection.search
    firstDelay,         \* the delay of the first setTimeout of scheduleReconnect (<<>>: none yet)
    schedAfterConnect,  \* scheduleReconnect runs since imaps.connect last resolved
                        \* (or since the start): "none" | "first" | "later"
    longOutage,         \* reconnectAttempts was >= 3 when imaps.connect last resolved
    unseen,             \* UNSEEN messages in the mailbox
    tick,               \* the poll tick that delivers its search results (or the last one)
    \* ---- the price check, the mail handler's workers, the prices file ----
    up,             \* ALERT_UP_PERCENT
    down,           \* ALERT_DOWN_PERCENT
    quotes,         \* the prices the price page may show in this behaviour
    pricesState,    \* the object pricesState of main(): per subject, its price
    o_pc,           \* checkTickersAndAlert: "idle" | "fetch" | "mail" | "save" | "done"
    o_idx,          \* position of the subject of the running iteration
    o_price,        \* const price of the running iteration (Null before extraction)
    o_results,      \* results of checkTickersAndAlert
    mails,          \* the alert mails sendMail delivered, in order
    o_mut,          \* subjects whose pricesState entry the pass assigned
    o_log,          \* subjects whose iteration is over, in order
    inbox,          \* the subject list of a mail not handled yet (<<>>: none)
    queue,          \* const queue of onMail
    w_pc,           \* per worker of onMail: "idle" | "fetch" | "save"
    w_t,            \* per worker: const t
    w_results,      \* results of onMail
    w_mut,          \* subjects whose pricesState entry a worker assigned
    sv_pc,          \* per caller of savePrices: "idle" | "open" | "write" | "rename"
    sv_data,        \* per caller: the data its call serialised
    sv_fd,          \* per caller: the file object its writeFile has open
    sv_saved,       \* callers whose last call of savePrices renamed its file
    fsName,         \* the names f and f + '.tmp': the file object each refers to
    fsData,         \* per file object: its content
    \* ---- the news tracker (pdfAlertTracker.js) ----
    seenSet,        \* const seenSet of startPdfTracker
    seenFile,       \* the content of SEEN_FILE
    alerts,         \* the items whose ticker has recipients in ALERTS_FILE
    n_pc,           \* per pass: "idle" | "html" | "download" | "send" | "open" | "write" ("off": not used)
    n_idx,          \* per pass: position of the URL of the running iteration
    n_item,         \* per pass: pdfUrl of the last first row of today
    n_wasSeen,      \* per pass: n_item was in seenSet when the row was read
    n_data,         \* per pass: the set writeJSON was called with
    n_log,          \* per pass: URLs whose iteration is over in this pass, in order
    n_failed,       \* per pass: URLs whose iteration failed in this pass
    notified,       \* per item: notifications sent about it (2: two or more)
    restarted,      \* the tracker was restarted
    \* --- the price locator (extractNumberFromString, autodetectPriceFromPage) ---
    x_arg,          \* the argument of the call: a text, or a page
    x_val,          \* what the call returned (NoVal: it has not returned)
    \* ---- startPeriodicTask ----
    loop            \* the async function loop: where it is suspended, let stopped,
                    \* the calls of taskFn in progress and the outcomes of those over

fetchVars == <<retries, attempt, f_pc, lastErr, thrownErr, timers, requests,
               attemptsMade, waits, allTransient, lastStatus>>

poolVars == <<browser, pagePool, c_pc, c_page, nextPage, launches, alive, sd_pc>>

imapVars == <<stopped, connection, pollInterval, reconnectTimer, reconnectAttempts,
              pollTimers, rTimers, lastDelay, connecting, opening, nconns, status,
              evLeft, pendingEnds, searching, firstDelay, schedAfterConnect, longOutage,
              unseen, tick>>

\* the record of the reconnect delays (written by scheduleReconnect and connect only)
imapHist == <<firstDelay, schedAfterConnect, longOutage>>

\* the mailbox and the delivery of its messages (written by the poll tick only)
mailVars == <<unseen, tick>>

priceVars == <<up, down, quotes, pricesState, o_pc, o_idx, o_price, o_results, mails,
               o_mut, o_log, inbox, queue, w_pc, w_t, w_results, w_mut, sv_pc, sv_data,
               sv_fd, sv_saved, fsName, fsData>>

newsVars == <<seenSet, seenFile, alerts, n_pc, n_idx, n_item, n_wasSeen, n_data, n_log,
              n_failed, notified, restarted>>

textVars == <<x_arg, x_val>>

taskVars == <<loop>>

vars == <<fetchVars, poolVars, imapVars, priceVars, newsVars, textVars, taskVars>>

\* what the actions of one component leave alone: the other components
FetchFrame == UNCHANGED <<poolVars, imapVars, priceVars, newsVars, textVars, taskVars>>

PoolFrame == UNCHANGED <<fetchVars, imapVars, priceVars, newsVars, textVars, taskVars>>

ImapFrame == UNCHANGED <<fetchVars, poolVars, priceVars, newsVars, textVars, taskVars>>

PriceFrame == UNCHANGED <<fetchVars, poolVars, imapVars, newsVars, textVars, taskVars>>

NewsFrame == UNCHANGED <<fetchVars, poolVars, imapVars, priceVars, textVars, taskVars>>

TextFrame == UNCHANGED <<fetchVars, poolVars, imapVars, priceVars, newsVars, taskVars>>

TaskFrame == UNCHANGED <<fetchVars, poolVars, imapVars, priceVars, newsVars, textVars>>

(***************************************************************************)
(* Bounds                                                                  *)
(***************************************************************************)
MaxRetries == 6
\* concurrent callers of fetchPriceForTicker (the periodic check and the
\* workers of the mail handler)
NumCallers == 2
\* the configured pool capacity opts.PUPPETEER_MAX_PAGES (default 4)
MaxPoolPages == 1
\* pages created / sessions launched in one behaviour
MaxPagesCreated == 2
MaxLaunches == 2
\* connections the server accepts, and events the connections emit, in one
\* behaviour
MaxConns == 2
MaxEvents == 2
\* connect() activations / unsettled connection.end() calls at one time
MaxInFlight == 2
MaxPendingEnds == 1
\* messages that may be unseen in the mailbox or not yet through the handler at one time
MaxMsgs == 2
\* ticks of one poll interval whose bodies can be in progress at the same time
MaxTicks == 2
\* the passes startPeriodicTask starts in one behaviour
MaxRuns == 5
\* the length of the texts tried on extractNumberFromString
MaxLen == 3
\* elements one XPath query of the locator returns
MaxCands == 2
\* tracked subjects (and news pages), and workers of the mail handler
\* (IMAP_FETCH_CONCURRENCY)
NumTickers == 2
NumWorkers == 1

(***************************************************************************)
(* fetchWithRetries                                                        *)
(***************************************************************************)
BACKOFF_BASE_MS == 1000
BACKOFF_CAP_MS == 10000
JITTER_MAX_MS == 500

Min2(a, b) == IF a <= b THEN a ELSE b

RECURSIVE Pow2(_)
Pow2(n) == IF n <= 0 THEN 1 ELSE 2 * Pow2(n - 1)

\* String.prototype.includes on a message held as a sequence of words.
Includes(msg, sub) ==
    \E i \in 1..(Len(msg) - Len(sub) + 1) : SubSeq(msg, i, i + Len(sub) - 1) = sub

NoErr == [code |-> "null", status |-> 0, msg |-> <<>>]

\* new Error(`fetch ${url} failed ${res.status}`) with err.status = res.status
HttpError(httpStatus) ==
    [code |-> "none", status |-> httpStatus, msg |-> <<"fetch", "URL", "failed", "STATUS">>]

\* What controller.abort() makes fetch reject with.
AbortError ==
    [code |-> "none", status |-> 0, msg |-> <<"The", "user", "aborted", "a", "request.">>]

\* Rejections of fetch() itself, as the HTTP client reports them.
NetworkErrors ==
    { [code |-> "ECONNRESET", status |-> 0,
       msg |-> <<"request", "to", "URL", "failed,", "reason:", "socket", "hang", "up">>],
      [code |-> "EPIPE", status |-> 0,
       msg |-> <<"request", "to", "URL", "failed,", "reason:", "write", "EPIPE">>],
      [code |-> "ETIMEDOUT", status |-> 0,
       msg |-> <<"request", "to", "URL", "failed,", "reason:", "connect", "ETIMEDOUT">>],
      [code |-> "ENOTFOUND", status |-> 0,
       msg |-> <<"request", "to", "URL", "failed,", "reason:", "getaddrinfo", "ENOTFOUND">>],
      [code |-> "ERR_INVALID_URL", status |-> 0, msg |-> <<"Invalid", "URL">>] }

\* Statuses for which res.ok is false.
FailStatuses == {404, 429, 500, 503}

\* Math.random() in thousandths: a value of [0, 1).
RandomSamples == {0, 500, 999}

IsTransient(err) ==
    \/ err.code = "ECONNRESET"
    \/ err.code = "EPIPE"
    \/ err.code = "ETIMEDOUT"
    \/ Includes(err.msg, <<"socket", "hang", "up">>)
    \/ Includes(err.msg, <<"network", "timeout">>)
    \/ Includes(err.msg, <<"aborted">>)
    \/ Includes(err.msg, <<"fetch">>)

LoopCond(a, r) == a <= r

ShouldThrowEarly(isT, a, r) == ~isT \/ a = r - 1

ShouldThrowIgnoringClass(isT, a, r) == a = r

ShouldThrow(isT, a, r) == ~isT \/ a = r

BackoffBaseUncapped(a) == BACKOFF_BASE_MS * Pow2(a - 1)

BackoffBase(a) == Min2(BACKOFF_BASE_MS * Pow2(a - 1), BACKOFF_CAP_MS)

\* Math.floor(Math.random() * 500), r in thousandths
Jitter(r) == (r * JITTER_MAX_MS) \div 1000

ClearTimeoutNoop(ts, id) == ts

ClearTimeout(ts, id) == ts \ {id}

InitFetch ==
    /\ retries \in 0..MaxRetries
    /\ attempt = 1
    /\ f_pc = "loop"
    /\ lastErr = NoErr
    /\ thrownErr = NoErr
    /\ timers = {}
    /\ requests = {}
    /\ attemptsMade = 0
    /\ waits = <<>>
    /\ allTransient = TRUE
    /\ lastStatus = 0

\* no call of fetchWithRetries in progress
InitFetchIdle ==
    /\ retries = 0
    /\ attempt = 1
    /\ f_pc = "loop"
    /\ lastErr = NoErr
    /\ thrownErr = NoErr
    /\ timers = {}
    /\ requests = {}
    /\ attemptsMade = 0
    /\ waits = <<>>
    /\ allTransient = TRUE
    /\ lastStatus = 0

\* for (...; attempt <= retries; ...) { controller; setTimeout; fetch(...) }
StartAttempt ==
    /\ f_pc = "loop"
    /\ LoopCond(attempt, retries)
    /\ timers' = timers \cup {attempt}
    /\ requests' = requests \cup {attempt}
    /\ attemptsMade' = attemptsMade + 1
    /\ f_pc' = "await_fetch"
    /\ UNCHANGED <<retries, attempt, lastErr, thrownErr, waits, allTransient, lastStatus>>
    /\ FetchFrame

\* the loop ends without a return: throw lastErr
LoopExit ==
    /\ f_pc = "loop"
    /\ ~LoopCond(attempt, retries)
    /\ thrownErr' = lastErr
    /\ f_pc' = "thrown"
    /\ UNCHANGED <<retries, attempt, lastErr, timers, requests, attemptsMade, waits,
                   allTransient, lastStatus>>
    /\ FetchFrame

\* the catch block, entered with err after the request of this attempt settled
Catch(err, r, ts) ==
    /\ timers' = ClearTimeout(ts, attempt)
    /\ lastErr' = err
    /\ lastStatus' = err.status
    /\ allTransient' = (allTransient /\ IsTransient(err))
    /\ IF ShouldThrow(IsTransient(err), attempt, retries)
       THEN /\ thrownErr' = err
            /\ f_pc' = "thrown"
            /\ waits' = waits
       ELSE /\ waits' = Append(waits, [base |-> BackoffBase(attempt), jitter |-> Jitter(r)])
            /\ f_pc' = "sleep"
            /\ thrownErr' = thrownErr
    /\ UNCHANGED <<retries, attempt, attemptsMade>>

\* fetch resolved, res.ok: clearTimeout(id); return res
FetchResolveOk ==
    /\ f_pc = "await_fetch"
    /\ attempt \in requests
    /\ requests' = requests \ {attempt}
    /\ timers' = ClearTimeout(timers, attempt)
    /\ f_pc' = "returned"
    /\ UNCHANGED <<retries, attempt, lastErr, thrownErr, attemptsMade, waits,
                   allTransient, lastStatus>>
    /\ FetchFrame

\* fetch resolved, !res.ok: clearTimeout(id); throw err  -> catch
FetchResolveNotOk ==
    /\ f_pc = "await_fetch"
    /\ attempt \in requests
    /\ requests' = requests \ {attempt}
    /\ \E s \in FailStatuses, r \in RandomSamples : Catch(HttpError(s), r, ClearTimeout(timers, attempt))
    /\ FetchFrame

\* fetch rejected with a network-layer error -> catch
FetchReject ==
    /\ f_pc = "await_fetch"
    /\ attempt \in requests
    /\ requests' = requests \ {attempt}
    /\ \E e \in NetworkErrors, r \in RandomSamples : Catch(e, r, timers)
    /\ FetchFrame

\* the timeout of the attempt fires: controller.abort() cancels the request,
\* fetch rejects with the abort error -> catch
TimeoutFire ==
    /\ f_pc = "await_fetch"
    /\ attempt \in timers
    /\ attempt \in requests
    /\ requests' = requests \ {attempt}
    /\ \E r \in RandomSamples : Catch(AbortError, r, timers \ {attempt})
    /\ FetchFrame

\* await sleep(wait) is over: attempt++
SleepDone ==
    /\ f_pc = "sleep"
    /\ attempt' = attempt + 1
    /\ f_pc' = "loop"
    /\ UNCHANGED <<retries, lastErr, thrownErr, timers, requests, attemptsMade, waits,
                   allTransient, lastStatus>>
    /\ FetchFrame

NextFetch ==
    \/ StartAttempt
    \/ LoopExit
    \/ FetchResolveOk
    \/ FetchResolveNotOk
    \/ FetchReject
    \/ TimeoutFire
    \/ SleepDone


(***************************************************************************)
(* Browser session and page pool                                           *)
(***************************************************************************)
Callers == 1..NumCallers

NoBrowser == 0

\* blank: the page shows about:blank; shut: a closeBrowser call ended while
\* the caller held the page
NoPage == [id |-> 0, sess |-> 0, src |-> "none", blank |-> TRUE, shut |-> FALSE]

\* no closeBrowser call is in progress
NoShutdown == [pc |-> "idle", sess |-> NoBrowser]

NotBlanked(p) == p

\* await p.goto('about:blank') resolved
Blanked(p) == [p EXCEPT !.blank = TRUE]

\* the entry of the pool for a released page
PoolEntry(p) == [id |-> p.id, sess |-> p.sess, blank |-> p.blank]

\* finally { browser = null; pagePool = [] } ran while callers held pages
HeldOverShutdown(pages, pcs) ==
    [c \in Callers |->
        IF pcs[c] \in {"using", "reset", "close", "close2"}
        THEN [pages[c] EXCEPT !.shut = TRUE] ELSE pages[c]]

\* if (browser) return browser;
EnsureHasBrowser(b) == b # NoBrowser

\* pagePool.length < PUPPETEER_MAX_PAGES
HasRoom(pool, max) == Len(pool) < max

\* pagePool.push(p)
PoolPush(pool, p) == Append(pool, p)

\* pagePool.pop(): the page returned
PoolTop(pool) == pool[Len(pool)]

PoolPeeked(pool) == pool

\* pagePool.pop(): the pool left
PoolPopped(pool) == SubSeq(pool, 1, Len(pool) - 1)

InitPool ==
    /\ browser = NoBrowser
    /\ pagePool = <<>>
    /\ c_pc = [c \in Callers |-> "idle"]
    /\ c_page = [c \in Callers |-> NoPage]
    /\ nextPage = 0
    /\ launches = 0
    /\ alive = {}
    /\ sd_pc = NoShutdown

\* fetchPriceForTicker -> getPage -> ensureBrowser, up to its first await
GetPageCall(c) ==
    /\ c_pc[c] = "idle"
    /\ IF EnsureHasBrowser(browser)
       THEN c_pc' = [c_pc EXCEPT ![c] = "ensured"]
       ELSE /\ launches + Cardinality({d \in Callers : c_pc[d] = "launch"}) < MaxLaunches
            /\ c_pc' = [c_pc EXCEPT ![c] = "launch"]
    /\ UNCHANGED <<browser, pagePool, c_page, nextPage, launches, alive, sd_pc>>
    /\ PoolFrame

\* puppeteer.launch() resolved: browser = <new session>; pagePool = []
LaunchDone(c) ==
    /\ c_pc[c] = "launch"
    /\ launches' = launches + 1
    /\ browser' = launches + 1
    /\ alive' = alive \cup {launches + 1}
    /\ pagePool' = <<>>
    /\ c_pc' = [c_pc EXCEPT ![c] = "ensured"]
    /\ UNCHANGED <<c_page, nextPage, sd_pc>>
    /\ PoolFrame

\* puppeteer.launch() rejected: getPage rejects before fetchPriceForTicker's try
LaunchFail(c) ==
    /\ c_pc[c] = "launch"
    /\ c_pc' = [c_pc EXCEPT ![c] = "idle"]
    /\ UNCHANGED <<browser, pagePool, c_page, nextPage, launches, alive, sd_pc>>
    /\ PoolFrame

\* if (pagePool.length > 0) return pagePool.pop();
GetPagePop(c) ==
    /\ c_pc[c] = "ensured"
    /\ Len(pagePool) > 0
    /\ c_page' = [c_page EXCEPT ![c] = [id |-> PoolTop(pagePool).id,
                                      sess |-> PoolTop(pagePool).sess, src |-> "pool",
                                      blank |-> PoolTop(pagePool).blank, shut |-> FALSE]]
    /\ pagePool' = PoolPopped(pagePool)
    /\ c_pc' = [c_pc EXCEPT ![c] = "using"]
    /\ UNCHANGED <<browser, nextPage, launches, alive, sd_pc>>
    /\ PoolFrame

\* const p = await browser.newPage();  (browser null: TypeError, getPage rejects)
GetPageNew(c) ==
    /\ c_pc[c] = "ensured"
    /\ Len(pagePool) = 0
    /\ IF browser = NoBrowser
       THEN /\ c_pc' = [c_pc EXCEPT ![c] = "idle"]
            /\ c_page' = c_page
       ELSE /\ nextPage + Cardinality({d \in Callers : c_pc[d] = "newpage"}) < MaxPagesCreated
            /\ c_pc' = [c_pc EXCEPT ![c] = "newpage"]
            /\ c_page' = [c_page EXCEPT ![c] = [id |-> 0, sess |-> browser, src |-> "new",
                                              blank |-> TRUE, shut |-> FALSE]]
    /\ UNCHANGED <<browser, pagePool, nextPage, launches, alive, sd_pc>>
    /\ PoolFrame

\* browser.newPage() resolved
NewPageDone(c) ==
    /\ c_pc[c] = "newpage"
    /\ c_page[c].sess \in alive
    /\ nextPage' = nextPage + 1
    /\ c_page' = [c_page EXCEPT ![c].id = nextPage + 1]
    /\ c_pc' = [c_pc EXCEPT ![c] = "using"]
    /\ UNCHANGED <<browser, pagePool, launches, alive, sd_pc>>
    /\ PoolFrame

\* browser.newPage() rejected: getPage rejects, no page to release
NewPageFail(c) ==
    /\ c_pc[c] = "newpage"
    /\ c_page' = [c_page EXCEPT ![c] = NoPage]
    /\ c_pc' = [c_pc EXCEPT ![c] = "idle"]
    /\ UNCHANGED <<browser, pagePool, nextPage, launches, alive, sd_pc>>
    /\ PoolFrame

\* fetchPriceForTicker's try body ended (value or exception) after it has
\* navigated the page: finally releasePage(p), up to its first await
ReleasePage(c) ==
    /\ c_pc[c] = "using"
    /\ IF HasRoom(pagePool, MaxPoolPages)
       THEN c_pc' = [c_pc EXCEPT ![c] = "reset"]
       ELSE c_pc' = [c_pc EXCEPT ![c] = "close"]
    /\ c_page' = [c_page EXCEPT ![c].blank = FALSE]
    /\ UNCHANGED <<browser, pagePool, nextPage, launches, alive, sd_pc>>
    /\ PoolFrame

\* await p.goto('about:blank') resolved: pagePool.push(p)
ResetDone(c) ==
    /\ c_pc[c] = "reset"
    /\ c_page[c].sess \in alive
    /\ pagePool' = PoolPush(pagePool, PoolEntry(Blanked(c_page[c])))
    /\ c_page' = [c_page EXCEPT ![c] = NoPage]
    /\ c_pc' = [c_pc EXCEPT ![c] = "idle"]
    /\ UNCHANGED <<browser, nextPage, launches, alive, sd_pc>>
    /\ PoolFrame

\* await p.goto('about:blank') rejected: catch { await p.close() }
ResetFail(c) ==
    /\ c_pc[c] = "reset"
    /\ c_pc' = [c_pc EXCEPT ![c] = "close2"]
    /\ UNCHANGED <<browser, pagePool, c_page, nextPage, launches, alive, sd_pc>>
    /\ PoolFrame

\* else-branch await p.close() resolved
CloseDone(c) ==
    /\ c_pc[c] = "close"
    /\ c_page' = [c_page EXCEPT ![c] = NoPage]
    /\ c_pc' = [c_pc EXCEPT ![c] = "idle"]
    /\ UNCHANGED <<browser, pagePool, nextPage, launches, alive, sd_pc>>
    /\ PoolFrame

\* else-branch await p.close() rejected: catch { await p.close() }
CloseFail(c) ==
    /\ c_pc[c] = "close"
    /\ c_pc' = [c_pc EXCEPT ![c] = "close2"]
    /\ UNCHANGED <<browser, pagePool, c_page, nextPage, launches, alive, sd_pc>>
    /\ PoolFrame

\* catch-branch p.close() settled (its error is swallowed)
Close2Settled(c) ==
    /\ c_pc[c] = "close2"
    /\ c_page' = [c_page EXCEPT ![c] = NoPage]
    /\ c_pc' = [c_pc EXCEPT ![c] = "idle"]
    /\ UNCHANGED <<browser, pagePool, nextPage, launches, alive, sd_pc>>
    /\ PoolFrame

\* closeBrowser(): if (browser) await browser.close()
CloseBrowserCall ==
    /\ sd_pc.pc = "idle"
    /\ browser # NoBrowser
    /\ sd_pc' = [pc |-> "closing", sess |-> browser]
    /\ UNCHANGED <<browser, pagePool, c_pc, c_page, nextPage, launches, alive>>
    /\ PoolFrame

\* browser.close() resolved (the session it was called on is gone with its
\* pages); finally { browser = null; pagePool = [] }
CloseBrowserDone ==
    /\ sd_pc.pc = "closing"
    /\ alive' = alive \ {sd_pc.sess}
    /\ browser' = NoBrowser
    /\ pagePool' = <<>>
    /\ sd_pc' = NoShutdown
    /\ c_page' = HeldOverShutdown(c_page, c_pc)
    /\ UNCHANGED <<c_pc, nextPage, launches>>
    /\ PoolFrame

\* browser.close() rejected and the browser process still runs;
\* finally { browser = null; pagePool = [] }
CloseBrowserFail ==
    /\ sd_pc.pc = "closing"
    /\ sd_pc.sess \in alive
    /\ browser' = NoBrowser
    /\ pagePool' = <<>>
    /\ sd_pc' = NoShutdown
    /\ c_page' = HeldOverShutdown(c_page, c_pc)
    /\ UNCHANGED <<c_pc, nextPage, launches, alive>>
    /\ PoolFrame

\* the browser process of session b dies (crash, kill, out of memory): no
\* code of the pool runs
SessionCrash(b) ==
    /\ b \in alive
    /\ alive' = alive \ {b}
    /\ UNCHANGED <<browser, pagePool, c_pc, c_page, nextPage, launches, sd_pc>>
    /\ PoolFrame

NextPool ==
    \/ \E c \in Callers : GetPageCall(c)
    \/ \E c \in Callers : LaunchDone(c)
    \/ \E c \in Callers : LaunchFail(c)
    \/ \E c \in Callers : GetPagePop(c)
    \/ \E c \in Callers : GetPageNew(c)
    \/ \E c \in Callers : NewPageDone(c)
    \/ \E c \in Callers : NewPageFail(c)
    \/ \E c \in Callers : ReleasePage(c)
    \/ \E c \in Callers : ResetDone(c)
    \/ \E c \in Callers : ResetFail(c)
    \/ \E c \in Callers : CloseDone(c)
    \/ \E c \in Callers : CloseFail(c)
    \/ \E c \in Callers : Close2Settled(c)
    \/ CloseBrowserCall
    \/ CloseBrowserDone

\* as NextPool, with a browser process that can die and a browser.close()
\* that can reject
NextPoolFaults ==
    \/ \E c \in Callers : GetPageCall(c)
    \/ \E c \in Callers : LaunchDone(c)
    \/ \E c \in Callers : LaunchFail(c)
    \/ \E c \in Callers : GetPagePop(c)
    \/ \E c \in Callers : GetPageNew(c)
    \/ \E c \in Callers : NewPageDone(c)
    \/ \E c \in Callers : NewPageFail(c)
    \/ \E c \in Callers : ReleasePage(c)
    \/ \E c \in Callers : ResetDone(c)
    \/ \E c \in Callers : ResetFail(c)
    \/ \E c \in Callers : CloseDone(c)
    \/ \E c \in Callers : CloseFail(c)
    \/ \E c \in Callers : Close2Settled(c)
    \/ CloseBrowserCall
    \/ CloseBrowserDone
    \/ CloseBrowserFail
    \/ \E b \in alive : SessionCrash(b)


(***************************************************************************)
(* startImapPolling: the mailbox watcher                                   *)
(***************************************************************************)
MAX_RECONNECT == 10
RECONNECT_BASE_MS == 1000
RECONNECT_CAP_MS == 30000
RECONNECT_COOLDOWN_MS == 60000

Conns == 1..MaxConns

NoConn == 0

NoTimer == 0

\* a new timer handle: one that no live timer of the set has
FreshTimer(S) == CHOOSE i \in 1..(Cardinality(S) + 1) : i \notin S

\* what connection.end() does to a connection
Ended(st) == IF st = "open" THEN "ended" ELSE st

Live(c) == status[c] = "open"

\* reconnectAttempts++ and the reset of the cooldown branch
NextAttempts(a) == IF a + 1 > MAX_RECONNECT THEN 0 ELSE a + 1

ReconnectDelayUncapped(a) ==
    IF a + 1 > MAX_RECONNECT
    THEN RECONNECT_COOLDOWN_MS
    ELSE RECONNECT_BASE_MS * Pow2(a + 1)

\* delay of scheduleReconnect, from reconnectAttempts before the increment
ReconnectDelay(a) ==
    IF a + 1 > MAX_RECONNECT
    THEN RECONNECT_COOLDOWN_MS
    ELSE Min2(RECONNECT_CAP_MS, RECONNECT_BASE_MS * Pow2(a + 1))

CounterKeptAfterConnect(a) == a

\* connect(): reconnectAttempts = 0 once imaps.connect has resolved
CounterAfterConnect(a) == 0

\* the bodies of the poll interval's callback that can be in progress: the
\* async callback has no guard against a tick that starts while an earlier
\* one still awaits the mail handler
TickSlots == 1..MaxTicks

\* the slot a tick body that starts now runs in: the lowest one not in use
FreeSlot(ts) ==
    CHOOSE k \in TickSlots :
        /\ ts[k].phase = "idle"
        /\ \A j \in TickSlots : ts[j].phase = "idle" => k <= j

\* the messages of the search results in progress that have not yet been
\* through the handler
RECURSIVE Undelivered(_, _)
Undelivered(ts, k) ==
    IF k = 0 THEN 0 ELSE (ts[k].results - ts[k].i) + Undelivered(ts, k - 1)

\* a slot in which no tick body is in progress
NoTick == [phase |-> "idle", results |-> 0, i |-> 0, errs |-> 0]

\* const results = await connection.search(...): the tick starts its for loop
\* over n results (no iteration when n = 0)
TickStarted(n) ==
    IF n = 0 THEN NoTick
    ELSE [phase |-> "deliver", results |-> n, i |-> 0, errs |-> 0]

\* await onMailCallback(...) resolved: the loop goes on to the next result,
\* and the tick body returns after the last one
TickAfterCallback(t) ==
    IF t.i + 1 = t.results THEN NoTick ELSE [t EXCEPT !.i = @ + 1]

TickAbortedByError(t) == NoTick

\* await onMailCallback(...) rejected: catch (cbErr) { console.error(...) },
\* then the loop goes on to the next result
TickAfterCallbackError(t) ==
    IF t.i + 1 = t.results THEN NoTick ELSE [t EXCEPT !.i = @ + 1, !.errs = @ + 1]

ScheduleGuardInverted(stp) == stp

\* if (stopped) return;
ScheduleGuard(stp) == ~stp

TimersKept(ts, t) == ts

\* clearTimeout(reconnectTimer) before the new setTimeout
ClearedTimers(ts, t) == ts \ {t}

PollKept(ts, t) == ts

\* clearPoll(): the timers left active
ClearedPoll(ts, t) == ts \ {t}

\* the cap on unsettled end() calls: a caller of safeEndConnection waits for room
EndRoom == connection = NoConn \/ pendingEnds < MaxPendingEnds

\* safeEndConnection() up to its await, on the statuses st
SafeEndConnection(st) ==
    IF connection # NoConn
    THEN /\ status' = [st EXCEPT ![connection] = Ended(@)]
         /\ pendingEnds' = pendingEnds + 1
    ELSE /\ status' = st
         /\ pendingEnds' = pendingEnds

\* scheduleReconnect(), called with the connection statuses st
ScheduleReconnect(st) ==
    IF ScheduleGuard(stopped)
    THEN /\ pollTimers' = ClearedPoll(pollTimers, pollInterval)
         /\ pollInterval' = NoTimer
         /\ SafeEndConnection(st)
         /\ reconnectAttempts' = NextAttempts(reconnectAttempts)
         /\ lastDelay' = ReconnectDelay(reconnectAttempts)
         /\ reconnectTimer' = FreshTimer(ClearedTimers(rTimers, reconnectTimer))
         /\ rTimers' = ClearedTimers(rTimers, reconnectTimer)
                          \cup {FreshTimer(ClearedTimers(rTimers, reconnectTimer))}
         /\ firstDelay' = IF firstDelay = <<>>
                          THEN <<ReconnectDelay(reconnectAttempts)>> ELSE firstDelay
         /\ schedAfterConnect' = IF schedAfterConnect = "none" THEN "first" ELSE "later"
         /\ longOutage' = longOutage
    ELSE /\ status' = st
         /\ UNCHANGED <<pollTimers, pollInterval, pendingEnds, reconnectAttempts,
                        lastDelay, reconnectTimer, rTimers, imapHist>>

\* startImapPolling has run: the initial connect() awaits imaps.connect
InitImap ==
    /\ stopped = FALSE
    /\ connection = NoConn
    /\ pollInterval = NoTimer
    /\ reconnectTimer = NoTimer
    /\ reconnectAttempts = 0
    /\ pollTimers = {}
    /\ rTimers = {}
    /\ lastDelay = 0
    /\ connecting = 1
    /\ opening = {}
    /\ nconns = 0
    /\ status = [c \in Conns |-> "none"]
    /\ evLeft = MaxEvents
    /\ pendingEnds = 0
    /\ searching = {}
    /\ firstDelay = <<>>
    /\ schedAfterConnect = "none"
    /\ longOutage = FALSE
    /\ unseen = 0
    /\ tick = [k \in TickSlots |-> NoTick]

\* as InitImap, on a server that will emit no error/close/end event
InitImapMail ==
    /\ stopped = FALSE
    /\ connection = NoConn
    /\ pollInterval = NoTimer
    /\ reconnectTimer = NoTimer
    /\ reconnectAttempts = 0
    /\ pollTimers = {}
    /\ rTimers = {}
    /\ lastDelay = 0
    /\ connecting = 1
    /\ opening = {}
    /\ nconns = 0
    /\ status = [c \in Conns |-> "none"]
    /\ evLeft = 0
    /\ pendingEnds = 0
    /\ searching = {}
    /\ firstDelay = <<>>
    /\ schedAfterConnect = "none"
    /\ longOutage = FALSE
    /\ unseen = 0
    /\ tick = [k \in TickSlots |-> NoTick]

\* the reconnect timeout fires: reconnectTimer = null; connect()
TimerFire ==
    /\ \E t \in rTimers :
          /\ rTimers' = rTimers \ {t}
          /\ reconnectTimer' = NoTimer
    /\ IF stopped
       THEN connecting' = connecting
       ELSE /\ connecting < MaxInFlight
            /\ connecting' = connecting + 1
    /\ UNCHANGED <<stopped, connection, pollInterval, reconnectAttempts, pollTimers,
                   lastDelay, opening, nconns, status, evLeft, pendingEnds, searching>>
    /\ UNCHANGED <<imapHist, mailVars>>
    /\ ImapFrame

\* imaps.connect resolved: connection = <it>; reconnectAttempts = 0; the
\* handlers are attached; connection.openBox('INBOX') is awaited
ConnectResolve ==
    /\ connecting > 0
    /\ nconns < MaxConns
    /\ connecting' = connecting - 1
    /\ nconns' = nconns + 1
    /\ connection' = nconns + 1
    /\ status' = [status EXCEPT ![nconns + 1] = "open"]
    /\ evLeft' = evLeft
    /\ reconnectAttempts' = CounterAfterConnect(reconnectAttempts)
    /\ schedAfterConnect' = "none"
    /\ longOutage' = (reconnectAttempts >= 3)
    /\ opening' = opening \cup {nconns + 1}
    /\ UNCHANGED <<stopped, pollInterval, reconnectTimer, pollTimers, rTimers,
                   lastDelay, pendingEnds, searching, firstDelay, mailVars>>
    /\ ImapFrame

\* imaps.connect rejected: catch { scheduleReconnect() }
ConnectReject ==
    /\ connecting > 0
    /\ EndRoom
    /\ connecting' = connecting - 1
    /\ ScheduleReconnect(status)
    /\ UNCHANGED <<stopped, connection, opening, nconns, evLeft, searching, mailVars>>
    /\ ImapFrame

\* openBox resolved: if (pollInterval) clearInterval(pollInterval);
\* pollInterval = setInterval(...)
OpenBoxResolve(c) ==
    /\ c \in opening
    /\ Live(c)
    /\ opening' = opening \ {c}
    /\ pollInterval' = FreshTimer(ClearedPoll(pollTimers, pollInterval))
    /\ pollTimers' = ClearedPoll(pollTimers, pollInterval)
                        \cup {FreshTimer(ClearedPoll(pollTimers, pollInterval))}
    /\ UNCHANGED <<stopped, connection, reconnectTimer, reconnectAttempts, rTimers,
                   lastDelay, connecting, nconns, status, evLeft, pendingEnds, searching>>
    /\ UNCHANGED <<imapHist, mailVars>>
    /\ ImapFrame

\* openBox rejected: catch { scheduleReconnect() }
OpenBoxReject(c) ==
    /\ c \in opening
    /\ EndRoom
    /\ opening' = opening \ {c}
    /\ ScheduleReconnect(status)
    /\ UNCHANGED <<stopped, connection, connecting, nconns, evLeft, searching, mailVars>>
    /\ ImapFrame

\* connection.on('error') and the socket's on('error'): scheduleReconnect()
OnError(c) ==
    /\ status[c] # "none"
    /\ evLeft > 0
    /\ EndRoom
    /\ evLeft' = evLeft - 1
    /\ ScheduleReconnect(status)
    /\ UNCHANGED <<stopped, connection, connecting, opening, nconns, searching, mailVars>>
    /\ ImapFrame

\* connection.on('close'): the connection is gone; scheduleReconnect()
OnClose(c) ==
    /\ status[c] # "none"
    /\ evLeft > 0
    /\ EndRoom
    /\ evLeft' = evLeft - 1
    /\ ScheduleReconnect([status EXCEPT ![c] = "closed"])
    /\ UNCHANGED <<stopped, connection, connecting, opening, nconns, searching, mailVars>>
    /\ ImapFrame

\* connection.on('end'): the server ended the connection; scheduleReconnect()
OnEnd(c) ==
    /\ status[c] # "none"
    /\ evLeft > 0
    /\ EndRoom
    /\ evLeft' = evLeft - 1
    /\ ScheduleReconnect([status EXCEPT ![c] = "closed"])
    /\ UNCHANGED <<stopped, connection, connecting, opening, nconns, searching, mailVars>>
    /\ ImapFrame

\* await connection.end() settled in safeEndConnection: finally { connection = null }
EndSettle ==
    /\ pendingEnds > 0
    /\ pendingEnds' = pendingEnds - 1
    /\ connection' = NoConn
    /\ UNCHANGED <<stopped, pollInterval, reconnectTimer, reconnectAttempts, pollTimers,
                   rTimers, lastDelay, connecting, opening, nconns, status, evLeft,
                   searching>>
    /\ UNCHANGED <<imapHist, mailVars>>
    /\ ImapFrame

\* a tick of the poll interval, up to await connection.search
PollTick ==
    /\ pollTimers # {}
    /\ IF stopped
       THEN /\ pollTimers' = ClearedPoll(pollTimers, pollInterval)
            /\ pollInterval' = NoTimer
            /\ searching' = searching
       ELSE /\ connection # NoConn
            /\ status[connection] \in {"open", "ended"}
            /\ connection \notin searching
            /\ searching' = searching \cup {connection}
            /\ UNCHANGED <<pollTimers, pollInterval>>
    /\ UNCHANGED <<stopped, connection, reconnectTimer, reconnectAttempts, rTimers,
                   lastDelay, connecting, opening, nconns, status, evLeft, pendingEnds>>
    /\ UNCHANGED <<imapHist, mailVars>>
    /\ ImapFrame

\* connection.search resolved with the unseen messages (markSeen: true): the
\* tick ends at once on an empty result, else it awaits the first callback
PollSearchResolve(c) ==
    /\ c \in searching
    /\ Live(c)
    /\ \E k \in TickSlots : tick[k].phase = "idle"
    /\ searching' = searching \ {c}
    /\ tick' = [tick EXCEPT ![FreeSlot(tick)] = TickStarted(unseen)]
    /\ unseen' = 0
    /\ UNCHANGED <<stopped, connection, pollInterval, reconnectTimer, reconnectAttempts,
                   pollTimers, rTimers, lastDelay, connecting, opening, nconns, status,
                   evLeft, pendingEnds, imapHist>>
    /\ ImapFrame

\* await onMailCallback(...) resolved
HandlerResolve(k) ==
    /\ tick[k].phase = "deliver"
    /\ tick' = [tick EXCEPT ![k] = TickAfterCallback(tick[k])]
    /\ UNCHANGED <<stopped, connection, pollInterval, reconnectTimer, reconnectAttempts,
                   pollTimers, rTimers, lastDelay, connecting, opening, nconns, status,
                   evLeft, pendingEnds, searching, imapHist, unseen>>
    /\ ImapFrame

\* await onMailCallback(...) rejected: the inner catch logs the error
HandlerReject(k) ==
    /\ tick[k].phase = "deliver"
    /\ tick' = [tick EXCEPT ![k] = TickAfterCallbackError(tick[k])]
    /\ UNCHANGED <<stopped, connection, pollInterval, reconnectTimer, reconnectAttempts,
                   pollTimers, rTimers, lastDelay, connecting, opening, nconns, status,
                   evLeft, pendingEnds, searching, imapHist, unseen>>
    /\ ImapFrame

\* a message arrives in the mailbox
MailArrives ==
    /\ unseen + Undelivered(tick, MaxTicks) < MaxMsgs
    /\ unseen' = unseen + 1
    /\ UNCHANGED <<stopped, connection, pollInterval, reconnectTimer, reconnectAttempts,
                   pollTimers, rTimers, lastDelay, connecting, opening, nconns, status,
                   evLeft, pendingEnds, searching, imapHist, tick>>
    /\ ImapFrame

\* connection.search rejected: catch { scheduleReconnect() }
PollSearchReject(c) ==
    /\ c \in searching
    /\ EndRoom
    /\ searching' = searching \ {c}
    /\ ScheduleReconnect(status)
    /\ UNCHANGED <<stopped, connection, connecting, opening, nconns, evLeft, mailVars>>
    /\ ImapFrame

\* stop(), up to await safeEndConnection()
Stop ==
    /\ EndRoom
    /\ stopped' = TRUE
    /\ rTimers' = ClearedTimers(rTimers, reconnectTimer)
    /\ reconnectTimer' = NoTimer
    /\ pollTimers' = ClearedPoll(pollTimers, pollInterval)
    /\ pollInterval' = NoTimer
    /\ SafeEndConnection(status)
    /\ UNCHANGED <<connection, reconnectAttempts, lastDelay, connecting, opening, nconns,
                   evLeft, searching, imapHist, mailVars>>
    /\ ImapFrame

NextImap ==
    \/ TimerFire
    \/ ConnectResolve
    \/ ConnectReject
    \/ \E c \in Conns : OpenBoxResolve(c)
    \/ \E c \in Conns : OpenBoxReject(c)
    \/ \E c \in Conns : OnError(c)
    \/ \E c \in Conns : OnClose(c)
    \/ \E c \in Conns : OnEnd(c)
    \/ EndSettle
    \/ PollTick
    \/ \E c \in Conns : PollSearchResolve(c)
    \/ \E c \in Conns : PollSearchReject(c)
    \/ Stop

\* the watcher on a server that emits no error/close/end event, with mail
\* arriving in the mailbox
NextImapMail ==
    \/ TimerFire
    \/ ConnectResolve
    \/ ConnectReject
    \/ \E c \in Conns : OpenBoxResolve(c)
    \/ \E c \in Conns : OpenBoxReject(c)
    \/ EndSettle
    \/ PollTick
    \/ \E c \in Conns : PollSearchResolve(c)
    \/ \E c \in Conns : PollSearchReject(c)
    \/ \E k \in TickSlots : HandlerResolve(k)
    \/ \E k \in TickSlots : HandlerReject(k)
    \/ MailArrives
    \/ Stop

(***************************************************************************)
(* checkTickersAndAlert, the workers of the mail handler, savePrices       *)
(***************************************************************************)
Tickers == 1..NumTickers

Workers == 1..NumWorkers

\* the callers of savePrices: checkTickersAndAlert and the workers of onMail
Orch == 0

Savers == {Orch} \cup Workers

\* null / undefined (no price)
Null == -1

\* for (const t of tickers): the subject at position i of the list
tickers == [i \in 1..NumTickers |-> i]

\* parseFloat(opts.ALERT_UP_PERCENT), parseFloat(opts.ALERT_DOWN_PERCENT)
Thresholds == {2, 5}

\* prices loaded from the prices file at start-up (Null: subject not in the file)
LoadedPrices == {Null, 0, 100}

\* prices the price page may show
AllQuotes == {94, 95, 102, 105, 106}

\* the subject lists a mail may ask for
Subjects == {<<1>>, <<2>>, <<1, 2>>, <<2, 1>>}

\* ---- the file system under the prices file ----
NoInode == 0

\* one file object for each name and for each open descriptor
Inodes == 1..(NumWorkers + 3)

NoData == [t \in Tickers |-> Null]

\* a file that was created or truncated and not written yet
Empty == [st |-> "empty", data |-> NoData]

\* a file that holds JSON.stringify(d)
Full(d) == [st |-> "full", data |-> d]

\* a file two writers wrote over each other with texts of different length
Corrupt == [st |-> "corrupt", data |-> NoData]

\* the file objects a name or an open descriptor refers to
Referenced(names, fds) ==
    {names.f, names.tmp} \cup {fds[s] : s \in Savers}

FreshInode(names, fds) ==
    CHOOSE i \in Inodes : i \notin Referenced(names, fds)

\* file objects nothing refers to are gone
Collected(data, names, fds) ==
    [i \in Inodes |-> IF i \in Referenced(names, fds) THEN data[i] ELSE Empty]

\* what a write of JSON.stringify(d) at offset 0 may leave in a file object
Written(old, d) ==
    IF old.st = "empty" THEN {Full(d)} ELSE {Full(d), Corrupt}

\* fs.rename(tmp, f) of POSIX: f names the object tmp named
Renamed(names) == [f |-> names.tmp, tmp |-> NoInode]

\* if (fs.existsSync(tmp)) fs.unlinkSync(tmp)
Unlinked(names) == [names EXCEPT !.tmp = NoInode]

\* what a reader of the prices file gets
ReadFile(names, data) ==
    IF names.f = NoInode THEN [st |-> "absent", data |-> NoData] ELSE data[names.f]

\* ---- the arithmetic of the alert ----
Abs(x) == IF x < 0 THEN -x ELSE x

\* pctChange returned null
NoChange == [num |-> 0, den |-> 0]

\* pctChange(oldP, newP): null, or ((newP - oldP) / oldP) * 100 as the exact
\* quotient num / den (prices are not negative, so den > 0)
PctChange(oldP, newP) ==
    IF oldP = Null \/ newP = Null THEN NoChange
    ELSE IF oldP = 0 THEN NoChange
    ELSE [num |-> (newP - oldP) * 100, den |-> oldP]

UpCrossedStrict(ch, u) == ch.num > u * ch.den

\* change >= up
UpCrossed(ch, u) == ch.num >= u * ch.den

\* change <= -down
DownCrossed(ch, d) == ch.num <= -(d * ch.den)

AlertNever(prev, ch, u, d) == "none"

\* the branch taken after results[t] = { price, prev, change }
AlertDir(prev, ch, u, d) ==
    IF prev = Null \/ ch = NoChange THEN "none"
    ELSE IF UpCrossed(ch, u) THEN "up"
    ELSE IF DownCrossed(ch, d) THEN "down"
    ELSE "none"

\* change.toFixed(2): sign, integer part and two decimals of the value
\* rounded to hundredths
ToFixed2(ch) ==
    LET r == (2 * Abs(ch.num) * 100 + ch.den) \div (2 * ch.den)
    IN  [neg |-> ch.num < 0, int |-> r \div 100, frac |-> r % 100]

\* the alert mail: `ALERT +${up}% ${t} (${change.toFixed(2)}%)` and its body
AlertMail(t, dir, prev, price, ch, u, d) ==
    [t |-> t, dir |-> dir, pct |-> IF dir = "up" THEN u ELSE d,
     change |-> ToFixed2(ch), prev |-> prev, price |-> price]

NoResult ==
    [kind |-> "none", price |-> Null, prev |-> Null, change |-> NoChange, error |-> "none"]

ZeroPriceResult(msg) ==
    [kind |-> "ok", price |-> 0, prev |-> Null, change |-> NoChange, error |-> "none"]

\* results[t] = { error: e.message }: the message of what was awaited and rejected
ErrorResult(msg) ==
    [kind |-> "error", price |-> Null, prev |-> Null, change |-> NoChange, error |-> msg]

\* results[t] = { price, prev, change }
OkResult(price, prev, ch) ==
    [kind |-> "ok", price |-> price, prev |-> prev, change |-> ch, error |-> "none"]

AbortAfterFailure(idx, failed) == IF failed THEN NumTickers + 1 ELSE idx + 1

\* the for loop goes on to the next subject, after the try body or the catch
AfterSubject(idx, failed) == idx + 1

\* ---- savePrices ----
\* savePrices(data, file) up to await writeFile(tmp, JSON.stringify(data)):
\* the text is made at the call
SaveCall(s, ps) ==
    /\ sv_pc' = [sv_pc EXCEPT ![s] = "open"]
    /\ sv_data' = [sv_data EXCEPT ![s] = ps]
    /\ sv_saved' = sv_saved \ {s}
    /\ UNCHANGED <<sv_fd, fsName, fsData>>

\* the iteration of checkTickersAndAlert for tickers[o_idx] is over
OrchNext(failed) ==
    /\ o_log' = Append(o_log, tickers[o_idx])
    /\ o_idx' = AfterSubject(o_idx, failed)
    /\ o_price' = Null
    /\ o_pc' = IF AfterSubject(o_idx, failed) > NumTickers THEN "done" ELSE "fetch"

\* while (queue.length > 0) { const t = queue.shift(); ... fetchPriceForTicker }
WorkerNext(w, q) ==
    IF q # <<>>
    THEN /\ w_pc' = [w_pc EXCEPT ![w] = "fetch"]
         /\ w_t' = [w_t EXCEPT ![w] = Head(q)]
         /\ queue' = Tail(q)
    ELSE /\ w_pc' = [w_pc EXCEPT ![w] = "idle"]
         /\ w_t' = [w_t EXCEPT ![w] = Null]
         /\ queue' = q

\* savePrices returned to its caller
SaveReturn(s) ==
    IF s = Orch
    THEN /\ OrchNext(FALSE)
         /\ UNCHANGED <<w_pc, w_t, queue>>
    ELSE /\ WorkerNext(s, queue)
         /\ UNCHANGED <<o_pc, o_idx, o_price, o_log>>

\* what savePrices and its callers' continuations never touch
SaveFrame ==
    UNCHANGED <<up, down, quotes, pricesState, o_results, mails, o_mut, inbox,
                w_results, w_mut>>

\* writeFile opens tmp for writing: the file is created, or truncated
SvOpen(s) ==
    /\ sv_pc[s] = "open"
    /\ LET i == IF fsName.tmp = NoInode THEN FreshInode(fsName, sv_fd) ELSE fsName.tmp
           names == [fsName EXCEPT !.tmp = i]
           fds == [sv_fd EXCEPT ![s] = i]
       IN  /\ fsName' = names
           /\ sv_fd' = fds
           /\ fsData' = Collected([fsData EXCEPT ![i] = Empty], names, fds)
    /\ sv_pc' = [sv_pc EXCEPT ![s] = "write"]
    /\ UNCHANGED <<sv_data, sv_saved, o_pc, o_idx, o_price, o_log, w_pc, w_t, queue>>
    /\ SaveFrame
    /\ PriceFrame

\* writeFile writes the text and closes; then await rename(tmp, f) is called
SvWrite(s) ==
    /\ sv_pc[s] = "write"
    /\ \E c \in Written(fsData[sv_fd[s]], sv_data[s]) :
          LET fds == [sv_fd EXCEPT ![s] = NoInode]
          IN  /\ sv_fd' = fds
              /\ fsData' = Collected([fsData EXCEPT ![sv_fd[s]] = c], fsName, fds)
    /\ sv_pc' = [sv_pc EXCEPT ![s] = "rename"]
    /\ UNCHANGED <<sv_data, sv_saved, fsName, o_pc, o_idx, o_price, o_log, w_pc, w_t,
                   queue>>
    /\ SaveFrame
    /\ PriceFrame

\* rename(tmp, f) settled; no tmp: ENOENT, caught and logged. savePrices returns
SvRename(s) ==
    /\ sv_pc[s] = "rename"
    /\ LET names == IF fsName.tmp = NoInode THEN fsName ELSE Renamed(fsName)
       IN  /\ fsName' = names
           /\ fsData' = Collected(fsData, names, sv_fd)
    /\ sv_saved' = IF fsName.tmp = NoInode THEN sv_saved ELSE sv_saved \cup {s}
    /\ sv_pc' = [sv_pc EXCEPT ![s] = "idle"]
    /\ SaveReturn(s)
    /\ UNCHANGED <<sv_data, sv_fd>>
    /\ SaveFrame
    /\ PriceFrame

\* writeFile or rename rejected (disk full, no permission): catch { log;
\* unlink tmp if it exists }. savePrices returns
SvFail(s) ==
    /\ sv_pc[s] \in {"open", "write", "rename"}
    /\ LET fds == [sv_fd EXCEPT ![s] = NoInode]
           names == Unlinked(fsName)
       IN  /\ sv_fd' = fds
           /\ fsName' = names
           /\ fsData' = Collected(fsData, names, fds)
    /\ sv_pc' = [sv_pc EXCEPT ![s] = "idle"]
    /\ SaveReturn(s)
    /\ UNCHANGED <<sv_data, sv_saved>>
    /\ SaveFrame
    /\ PriceFrame

\* ---- checkTickersAndAlert ----
\* the state the server is in once main() has loaded the prices file; no
\* pass of checkTickersAndAlert and no mail handler has run yet
InitPricesWith(us, ds, qs, loaded, mails0) ==
    /\ up \in us
    /\ down \in ds
    /\ quotes = qs
    /\ pricesState \in [Tickers -> loaded]
    /\ o_pc = "idle"
    /\ o_idx = 1
    /\ o_price = Null
    /\ o_results = [t \in Tickers |-> NoResult]
    /\ mails = <<>>
    /\ o_mut = {}
    /\ o_log = <<>>
    /\ inbox \in mails0
    /\ queue = <<>>
    /\ w_pc = [w \in Workers |-> "idle"]
    /\ w_t = [w \in Workers |-> Null]
    /\ w_results = [t \in Tickers |-> NoResult]
    /\ w_mut = {}
    /\ sv_pc = [s \in Savers |-> "idle"]
    /\ sv_data = [s \in Savers |-> NoData]
    /\ sv_fd = [s \in Savers |-> NoInode]
    /\ sv_saved = {}
    /\ fsName = [f |-> 1, tmp |-> NoInode]
    /\ fsData = [i \in Inodes |-> IF i = 1 THEN Full(pricesState) ELSE Empty]

\* the periodic pass alone, over every threshold, loaded price and quote
InitPrices == InitPricesWith(Thresholds, Thresholds, AllQuotes, LoadedPrices, {<<>>})

\* the periodic pass and a mail that asks for prices, at the default
\* thresholds, every subject loaded with price 100, every page showing 106
InitPricesMail == InitPricesWith({5}, {5}, {106}, {100}, Subjects)

\* the periodic pass at the default thresholds, every subject loaded with
\* price 100, no mail
InitPricesPass == InitPricesWith({5}, {5}, {102, 106}, {100}, {<<>>})

\* no subject is tracked and no mail arrives
InitPricesIdle == InitPricesWith({5}, {5}, {}, {Null}, {<<>>})

\* the periodic task calls checkFn: checkTickersAndAlert runs up to its first
\* await fetchPriceForTicker
OrchStart ==
    /\ o_pc = "idle"
    /\ quotes # {}
    /\ o_pc' = "fetch"
    /\ o_idx' = 1
    /\ UNCHANGED <<up, down, quotes, pricesState, o_price, o_results, mails, o_mut, o_log,
                   inbox, queue, w_pc, w_t, w_results, w_mut, sv_pc, sv_data, sv_fd,
                   sv_saved, fsName, fsData>>
    /\ PriceFrame

\* fetchPriceForTicker resolved with price q: results[t] is set; then either
\* await sendMail (an alert is due), or pricesState[t] is set and savePrices
\* is called
OrchFetchOk(q) ==
    /\ o_pc = "fetch"
    /\ LET t == tickers[o_idx]
           prev == pricesState[t]
           ch == PctChange(prev, q)
       IN  /\ o_results' = [o_results EXCEPT ![t] = OkResult(q, prev, ch)]
           /\ o_price' = q
           /\ IF AlertDir(prev, ch, up, down) # "none"
              THEN /\ o_pc' = "mail"
                   /\ UNCHANGED <<pricesState, o_mut, sv_pc, sv_data, sv_saved, sv_fd,
                                  fsName, fsData>>
              ELSE /\ o_pc' = "save"
                   /\ pricesState' = [pricesState EXCEPT ![t] = q]
                   /\ o_mut' = o_mut \cup {t}
                   /\ SaveCall(Orch, [pricesState EXCEPT ![t] = q])
    /\ UNCHANGED <<up, down, quotes, o_idx, mails, o_log, inbox, queue, w_pc, w_t,
                   w_results, w_mut>>
    /\ PriceFrame

\* fetchPriceForTicker rejected: catch { results[t] = { error } }, next subject
OrchFetchFail ==
    /\ o_pc = "fetch"
    /\ o_results' = [o_results EXCEPT ![tickers[o_idx]] = ErrorResult("fetch")]
    /\ OrchNext(TRUE)
    /\ UNCHANGED <<up, down, quotes, pricesState, mails, o_mut, inbox, queue, w_pc, w_t,
                   w_results, w_mut, sv_pc, sv_data, sv_fd, sv_saved, fsName, fsData>>
    /\ PriceFrame

\* sendMail resolved: pricesState[t] is set and savePrices is called
OrchMailOk ==
    /\ o_pc = "mail"
    /\ LET t == tickers[o_idx]
           r == o_results[t]
       IN  /\ mails' = Append(mails, AlertMail(t, AlertDir(r.prev, r.change, up, down),
                                               r.prev, r.price, r.change, up, down))
           /\ pricesState' = [pricesState EXCEPT ![t] = o_price]
           /\ o_mut' = o_mut \cup {t}
           /\ SaveCall(Orch, [pricesState EXCEPT ![t] = o_price])
    /\ o_pc' = "save"
    /\ UNCHANGED <<up, down, quotes, o_idx, o_price, o_results, o_log, inbox, queue, w_pc,
                   w_t, w_results, w_mut>>
    /\ PriceFrame

\* sendMail rejected: catch { results[t] = { error } }, next subject
OrchMailFail ==
    /\ o_pc = "mail"
    /\ o_results' = [o_results EXCEPT ![tickers[o_idx]] = ErrorResult("mail")]
    /\ OrchNext(TRUE)
    /\ UNCHANGED <<up, down, quotes, pricesState, mails, o_mut, inbox, queue, w_pc, w_t,
                   w_results, w_mut, sv_pc, sv_data, sv_fd, sv_saved, fsName, fsData>>
    /\ PriceFrame

\* ---- the mail handler (onMail) ----
\* onMail is called with a subject that lists tickers: the workers are
\* created, each takes a ticker off the queue and awaits fetchPriceForTicker
OnMail ==
    /\ inbox # <<>>
    /\ \A w \in Workers : w_pc[w] = "idle"
    /\ w_pc' = [w \in Workers |-> IF w <= Len(inbox) THEN "fetch" ELSE "idle"]
    /\ w_t' = [w \in Workers |-> IF w <= Len(inbox) THEN inbox[w] ELSE Null]
    /\ queue' = SubSeq(inbox, NumWorkers + 1, Len(inbox))
    /\ inbox' = <<>>
    /\ UNCHANGED <<up, down, quotes, pricesState, o_pc, o_idx, o_price, o_results, mails,
                   o_mut, o_log, w_results, w_mut, sv_pc, sv_data, sv_fd, sv_saved,
                   fsName, fsData>>
    /\ PriceFrame

\* a worker's fetchPriceForTicker resolved: results[t] = { price };
\* pricesState[t] is set and savePrices is called
WorkerFetchOk(w, q) ==
    /\ w_pc[w] = "fetch"
    /\ w_results' = [w_results EXCEPT ![w_t[w]] = OkResult(q, Null, NoChange)]
    /\ pricesState' = [pricesState EXCEPT ![w_t[w]] = q]
    /\ w_mut' = w_mut \cup {w_t[w]}
    /\ SaveCall(w, [pricesState EXCEPT ![w_t[w]] = q])
    /\ w_pc' = [w_pc EXCEPT ![w] = "save"]
    /\ UNCHANGED <<up, down, quotes, o_pc, o_idx, o_price, o_results, mails, o_mut, o_log,
                   inbox, queue, w_t>>
    /\ PriceFrame

\* a worker's fetchPriceForTicker rejected: results[t] = { error }; the
\* worker takes the next ticker
WorkerFetchFail(w) ==
    /\ w_pc[w] = "fetch"
    /\ w_results' = [w_results EXCEPT ![w_t[w]] = ErrorResult("fetch")]
    /\ WorkerNext(w, queue)
    /\ UNCHANGED <<up, down, quotes, pricesState, o_pc, o_idx, o_price, o_results, mails,
                   o_mut, o_log, inbox, w_mut, sv_pc, sv_data, sv_fd, sv_saved, fsName,
                   fsData>>
    /\ PriceFrame

\* one pass of checkTickersAndAlert
NextOrch ==
    \/ OrchStart
    \/ \E q \in quotes : OrchFetchOk(q)
    \/ OrchFetchFail
    \/ OrchMailOk
    \/ OrchMailFail
    \/ \E s \in Savers : SvOpen(s)
    \/ \E s \in Savers : SvWrite(s)
    \/ \E s \in Savers : SvRename(s)
    \/ \E s \in Savers : SvFail(s)

\* as NextPrices, without the failures of the disk
NextSaves ==
    \/ OrchStart
    \/ \E q \in quotes : OrchFetchOk(q)
    \/ OrchFetchFail
    \/ OrchMailOk
    \/ OrchMailFail
    \/ \E s \in Savers : SvOpen(s)
    \/ \E s \in Savers : SvWrite(s)
    \/ \E s \in Savers : SvRename(s)
    \/ OnMail
    \/ \E w \in Workers, q \in quotes : WorkerFetchOk(w, q)
    \/ \E w \in Workers : WorkerFetchFail(w)

\* one pass of checkTickersAndAlert while the mail handler answers a mail
NextPrices ==
    \/ OrchStart
    \/ \E q \in quotes : OrchFetchOk(q)
    \/ OrchFetchFail
    \/ OrchMailOk
    \/ OrchMailFail
    \/ \E s \in Savers : SvOpen(s)
    \/ \E s \in Savers : SvWrite(s)
    \/ \E s \in Savers : SvRename(s)
    \/ \E s \in Savers : SvFail(s)
    \/ OnMail
    \/ \E w \in Workers, q \in quotes : WorkerFetchOk(w, q)
    \/ \E w \in Workers : WorkerFetchFail(w)

(***************************************************************************)
(* The news tracker: startPdfTracker, checkAllTickersOnce,                 *)
(* processFirstItemIfToday, writeJSON (src/pdfAlertTracker.js)             *)
(***************************************************************************)
\* NEWS_LIST_URLS: one page for each tracked ticker
urls == [i \in 1..NumTickers |-> i]

\* the PDF URLs a first row of today may link to
Items == {1, 2}

\* no row of today, or no PDF link in it
NoItem == 0

\* the seen-set file: missing, open for writing and not written yet, or
\* holding { seen: [...] }
AbsentSeen == [st |-> "absent", data |-> {}]

EmptySeen == [st |-> "empty", data |-> {}]

FullSeen(S) == [st |-> "full", data |-> S]

\* new Set((await readJSON(SEEN_FILE, { seen: [] })).seen || [])
ReadSeen(file) == IF file.st = "full" THEN file.data ELSE {}

SeenNever(S, it) == FALSE

\* seenSet.has(pdfUrl)
SeenHas(S, it) == it \in S

SeenAddedOnFailure(S, it) == S \cup {it}

\* catch (e) { console.error('Processing failed for', pdfUrl, ...) }: the
\* seen-set after a failed download or send of item it
SeenAfterFailure(S, it) == S

\* one more notification about an item (two stands for two or more)
Counted(n) == IF n >= 2 THEN 2 ELSE n + 1

\* the activations of checkAllTickersOnce that can be in progress at a time:
\* setInterval calls it again whether or not the previous call has returned
Passes == {1, 2}

\* startPdfTracker has loaded the seen-set; the first pass has not begun;
\* on: the activations the run uses (the others never start)
InitNewsWith(files, configs, on) ==
    /\ seenFile \in files
    /\ seenSet = ReadSeen(seenFile)
    /\ alerts \in configs
    /\ n_pc = [p \in Passes |-> IF p \in on THEN "idle" ELSE "off"]
    /\ n_idx = [p \in Passes |-> 1]
    /\ n_item = [p \in Passes |-> NoItem]
    /\ n_wasSeen = [p \in Passes |-> FALSE]
    /\ n_data = [p \in Passes |-> {}]
    /\ n_log = [p \in Passes |-> <<>>]
    /\ n_failed = [p \in Passes |-> {}]
    /\ notified = [it \in Items |-> 0]
    /\ restarted = FALSE

\* every content of the seen-set file and every alerts configuration, each
\* pass over before the interval fires again
InitNews ==
    InitNewsWith({AbsentSeen} \cup {FullSeen(S) : S \in SUBSET Items}, SUBSET Items, {1})

\* a first run: no seen-set file yet, every item has recipients
InitNewsFirstRun == InitNewsWith({AbsentSeen}, {Items}, {1})

\* the tracker at rest: nothing seen; used where the tracker does not run
InitNewsIdle == InitNewsWith({AbsentSeen}, {{}}, {1})

\* a first run in which a pass can outlast the poll interval
InitNewsOverlap == InitNewsWith({AbsentSeen}, SUBSET Items, Passes)

\* processFirstItemIfToday returned (or threw into the catch of
\* checkAllTickersOnce): the for loop goes on to the next URL
NewsNext(p, failed) ==
    /\ n_log' = [n_log EXCEPT ![p] = Append(@, urls[n_idx[p]])]
    /\ n_failed' = IF failed THEN [n_failed EXCEPT ![p] = @ \cup {urls[n_idx[p]]}]
                   ELSE n_failed
    /\ n_idx' = [n_idx EXCEPT ![p] = @ + 1]
    /\ n_pc' = [n_pc EXCEPT ![p] = IF n_idx[p] + 1 > NumTickers THEN "idle" ELSE "html"]

\* checkAllTickersOnce is called (at start-up, then by the interval timer)
NewsPassStart(p) ==
    /\ n_pc[p] = "idle"
    /\ n_pc' = [n_pc EXCEPT ![p] = "html"]
    /\ n_idx' = [n_idx EXCEPT ![p] = 1]
    /\ n_log' = [n_log EXCEPT ![p] = <<>>]
    /\ n_failed' = [n_failed EXCEPT ![p] = {}]
    /\ UNCHANGED <<seenSet, seenFile, alerts, n_item, n_wasSeen, n_data, notified,
                   restarted>>
    /\ NewsFrame

\* fetchHTML rejected: logged, processFirstItemIfToday returns
NewsHtmlFail(p) ==
    /\ n_pc[p] = "html"
    /\ NewsNext(p, TRUE)
    /\ UNCHANGED <<seenSet, seenFile, alerts, n_item, n_wasSeen, n_data, notified,
                   restarted>>
    /\ NewsFrame

\* the page has no first row of today with a PDF link: return
NewsHtmlNone(p) ==
    /\ n_pc[p] = "html"
    /\ NewsNext(p, FALSE)
    /\ UNCHANGED <<seenSet, seenFile, alerts, n_item, n_wasSeen, n_data, notified,
                   restarted>>
    /\ NewsFrame

\* the first row of today links item it: if (seenSet.has(pdfUrl)) return;
\* else downloadPDF(pdfUrl) is awaited
NewsHtmlItem(p, it) ==
    /\ n_pc[p] = "html"
    /\ n_item' = [n_item EXCEPT ![p] = it]
    /\ n_wasSeen' = [n_wasSeen EXCEPT ![p] = (it \in seenSet)]
    /\ IF SeenHas(seenSet, it)
       THEN NewsNext(p, FALSE)
       ELSE /\ n_pc' = [n_pc EXCEPT ![p] = "download"]
            /\ UNCHANGED <<n_idx, n_log, n_failed>>
    /\ UNCHANGED <<seenSet, seenFile, alerts, n_data, notified, restarted>>
    /\ NewsFrame

\* the PDF is downloaded (text extraction and the price lookup cannot throw):
\* without recipients the item is marked seen and written; with recipients
\* sendEmail is awaited
NewsDownloadOk(p) ==
    /\ n_pc[p] = "download"
    /\ IF n_item[p] \notin alerts
       THEN /\ seenSet' = seenSet \cup {n_item[p]}
            /\ n_data' = [n_data EXCEPT ![p] = seenSet \cup {n_item[p]}]
            /\ n_pc' = [n_pc EXCEPT ![p] = "open"]
       ELSE /\ n_pc' = [n_pc EXCEPT ![p] = "send"]
            /\ UNCHANGED <<seenSet, n_data>>
    /\ UNCHANGED <<seenFile, alerts, n_idx, n_item, n_wasSeen, n_log, n_failed, notified,
                   restarted>>
    /\ NewsFrame

\* downloadPDF rejected: catch { log }
NewsDownloadFail(p) ==
    /\ n_pc[p] = "download"
    /\ NewsNext(p, TRUE)
    /\ seenSet' = SeenAfterFailure(seenSet, n_item[p])
    /\ UNCHANGED <<seenFile, alerts, n_item, n_wasSeen, n_data, notified, restarted>>
    /\ NewsFrame

\* sendEmail resolved: seenSet.add(pdfUrl); writeJSON(SEEN_FILE, ...) is awaited
NewsSendOk(p) ==
    /\ n_pc[p] = "send"
    /\ notified' = [notified EXCEPT ![n_item[p]] = Counted(@)]
    /\ seenSet' = seenSet \cup {n_item[p]}
    /\ n_data' = [n_data EXCEPT ![p] = seenSet \cup {n_item[p]}]
    /\ n_pc' = [n_pc EXCEPT ![p] = "open"]
    /\ UNCHANGED <<seenFile, alerts, n_idx, n_item, n_wasSeen, n_log, n_failed, restarted>>
    /\ NewsFrame

\* sendEmail rejected: catch { log }
NewsSendFail(p) ==
    /\ n_pc[p] = "send"
    /\ NewsNext(p, TRUE)
    /\ seenSet' = SeenAfterFailure(seenSet, n_item[p])
    /\ UNCHANGED <<seenFile, alerts, n_item, n_wasSeen, n_data, notified, restarted>>
    /\ NewsFrame

\* writeJSON: fsp.writeFile opens SEEN_FILE itself for writing (created or
\* truncated)
NewsWriteOpen(p) ==
    /\ n_pc[p] = "open"
    /\ seenFile' = EmptySeen
    /\ n_pc' = [n_pc EXCEPT ![p] = "write"]
    /\ UNCHANGED <<seenSet, alerts, n_idx, n_item, n_wasSeen, n_data, n_log, n_failed,
                   notified, restarted>>
    /\ NewsFrame

\* writeJSON: the text is written; processFirstItemIfToday returns
NewsWriteData(p) ==
    /\ n_pc[p] = "write"
    /\ seenFile' = FullSeen(n_data[p])
    /\ NewsNext(p, FALSE)
    /\ UNCHANGED <<seenSet, alerts, n_item, n_wasSeen, n_data, notified, restarted>>
    /\ NewsFrame

\* writeJSON rejected: catch { log }
NewsWriteFail(p) ==
    /\ n_pc[p] \in {"open", "write"}
    /\ NewsNext(p, TRUE)
    /\ UNCHANGED <<seenSet, seenFile, alerts, n_item, n_wasSeen, n_data, notified,
                   restarted>>
    /\ NewsFrame

\* the process ends at any point and is started again: startPdfTracker reads
\* the seen-set file
NewsRestart ==
    /\ seenSet' = ReadSeen(seenFile)
    /\ n_pc' = [p \in Passes |-> IF n_pc[p] = "off" THEN "off" ELSE "idle"]
    /\ n_idx' = [p \in Passes |-> 1]
    /\ n_item' = [p \in Passes |-> NoItem]
    /\ n_wasSeen' = [p \in Passes |-> FALSE]
    /\ n_data' = [p \in Passes |-> {}]
    /\ n_log' = [p \in Passes |-> <<>>]
    /\ n_failed' = [p \in Passes |-> {}]
    /\ restarted' = TRUE
    /\ UNCHANGED <<seenFile, alerts, notified>>
    /\ NewsFrame

\* the tracker over its restarts
NextNews ==
    \/ \E p \in Passes : NewsPassStart(p)
    \/ \E p \in Passes : NewsHtmlFail(p)
    \/ \E p \in Passes : NewsHtmlNone(p)
    \/ \E p \in Passes : \E it \in Items : NewsHtmlItem(p, it)
    \/ \E p \in Passes : NewsDownloadOk(p)
    \/ \E p \in Passes : NewsDownloadFail(p)
    \/ \E p \in Passes : NewsSendOk(p)
    \/ \E p \in Passes : NewsSendFail(p)
    \/ \E p \in Passes : NewsWriteOpen(p)
    \/ \E p \in Passes : NewsWriteData(p)
    \/ \E p \in Passes : NewsWriteFail(p)
    \/ NewsRestart

\* the passes of one run of the tracker, the interval firing whether or not
\* the previous pass is over
NextNewsOverlap ==
    \/ \E p \in Passes : NewsPassStart(p)
    \/ \E p \in Passes : NewsHtmlFail(p)
    \/ \E p \in Passes : NewsHtmlNone(p)
    \/ \E p \in Passes : \E it \in Items : NewsHtmlItem(p, it)
    \/ \E p \in Passes : NewsDownloadOk(p)
    \/ \E p \in Passes : NewsDownloadFail(p)
    \/ \E p \in Passes : NewsSendOk(p)
    \/ \E p \in Passes : NewsSendFail(p)
    \/ \E p \in Passes : NewsWriteOpen(p)
    \/ \E p \in Passes : NewsWriteData(p)
    \/ \E p \in Passes : NewsWriteFail(p)

\* one pass of the price check and the passes of the news tracker
NextPasses ==
    \/ OrchStart
    \/ \E q \in quotes : OrchFetchOk(q)
    \/ OrchFetchFail
    \/ OrchMailOk
    \/ OrchMailFail
    \/ \E s \in Savers : SvOpen(s)
    \/ \E s \in Savers : SvWrite(s)
    \/ \E s \in Savers : SvRename(s)
    \/ \E s \in Savers : SvFail(s)
    \/ \E p \in Passes : NewsPassStart(p)
    \/ \E p \in Passes : NewsHtmlFail(p)
    \/ \E p \in Passes : NewsHtmlNone(p)
    \/ \E p \in Passes : \E it \in Items : NewsHtmlItem(p, it)
    \/ \E p \in Passes : NewsDownloadOk(p)
    \/ \E p \in Passes : NewsDownloadFail(p)
    \/ \E p \in Passes : NewsSendOk(p)
    \/ \E p \in Passes : NewsSendFail(p)
    \/ \E p \in Passes : NewsWriteOpen(p)
    \/ \E p \in Passes : NewsWriteData(p)
    \/ \E p \in Passes : NewsWriteFail(p)

(***************************************************************************)
(* The price locator: extractNumberFromString, autodetectPriceFromPage and *)
(* the text patterns of fetchPriceForTicker                                *)
(* (src/Functions/functions.improved.cjs.bak)                              *)
(* A text is a sequence of characters; a number is the exact quotient      *)
(* num / den with den a power of ten.                                      *)
(***************************************************************************)
\* the call has not returned
NoVal == [num |-> 0, den |-> -1]

\* NaN
NaN == [num |-> 0, den |-> 0]

\* the value of a decimal digit
DigitVal ==
    ("0" :> 0) @@ ("1" :> 1) @@ ("2" :> 2) @@ ("3" :> 3) @@ ("4" :> 4) @@
    ("5" :> 5) @@ ("6" :> 6) @@ ("7" :> 7) @@ ("8" :> 8) @@ ("9" :> 9)

\* \d
IsDigit(ch) == ch \in DOMAIN DigitVal

\* txt.trim().replace(/\s+/g, ' ').replace(',', '.'): a string pattern
\* replaces the first occurrence only
Cleaned(txt) ==
    LET RECURSIVE TrimLeft(_)
        TrimLeft(s) == IF s # <<>> /\ Head(s) = " " THEN TrimLeft(Tail(s)) ELSE s
        RECURSIVE TrimRight(_)
        TrimRight(s) ==
            IF s # <<>> /\ s[Len(s)] = " "
            THEN TrimRight(SubSeq(s, 1, Len(s) - 1)) ELSE s
        RECURSIVE Collapse(_)
        Collapse(s) ==
            IF Len(s) < 2 THEN s
            ELSE IF s[1] = " " /\ s[2] = " " THEN Collapse(Tail(s))
            ELSE <<s[1]>> \o Collapse(Tail(s))
        RECURSIVE ReplaceFirstComma(_)
        ReplaceFirstComma(s) ==
            IF s = <<>> THEN s
            ELSE IF Head(s) = "," THEN <<".">> \o Tail(s)
            ELSE <<Head(s)>> \o ReplaceFirstComma(Tail(s))
    IN  ReplaceFirstComma(Collapse(TrimRight(TrimLeft(txt))))

\* \d* at the start of s
RECURSIVE DigitRun(_)
DigitRun(s) ==
    IF s # <<>> /\ IsDigit(Head(s)) THEN <<Head(s)>> \o DigitRun(Tail(s)) ELSE <<>>

\* s from its first digit on
RECURSIVE FromFirstDigit(_)
FromFirstDigit(s) ==
    IF s = <<>> \/ IsDigit(Head(s)) THEN s ELSE FromFirstDigit(Tail(s))

\* cleaned.match(...) found nothing
NoMatch == [int |-> <<>>, sep |-> "", frac |-> <<>>]

\* cleaned.match(/(\d+[.,]?\d*)/): the leftmost digit run, one separator if
\* it follows, and the digits after it
NumberMatch(s) ==
    LET Parts(int, rest, hasSep) ==
            [int |-> int,
             sep |-> IF hasSep THEN Head(rest) ELSE "",
             frac |-> IF hasSep THEN DigitRun(Tail(rest)) ELSE <<>>]
        Split(int, rest) == Parts(int, rest, rest # <<>> /\ Head(rest) \in {".", ","})
        From(r, int) == Split(int, SubSeq(r, Len(int) + 1, Len(r)))
        Match(r) == IF r = <<>> THEN NoMatch ELSE From(r, DigitRun(r))
    IN  Match(FromFirstDigit(s))

\* parseFloat of digits, a separator read as '.', digits
ParseFloat(int, frac) ==
    LET RECURSIVE ToInt(_)
        ToInt(ds) ==
            IF ds = <<>> THEN 0
            ELSE ToInt(SubSeq(ds, 1, Len(ds) - 1)) * 10 + DigitVal[ds[Len(ds)]]
        RECURSIVE Pow10(_)
        Pow10(n) == IF n = 0 THEN 1 ELSE 10 * Pow10(n - 1)
    IN  [num |-> ToInt(int \o frac), den |-> Pow10(Len(frac))]

\* value < 50
Below50(v) == v.num < 50 * v.den

\* value *= 1000
TimesThousand(v) ==
    IF v.den >= 1000 THEN [num |-> v.num, den |-> v.den \div 1000]
    ELSE [num |-> v.num * (1000 \div v.den), den |-> 1]

NoMatchIsZero == [num |-> 0, den |-> 1]

\* if (!match) return NaN;
NoMatchValue == NaN

\* extractNumberFromString(txt); null, undefined and '' are the empty text
ExtractNumberFromString(txt) ==
    LET \* value < 50 && numStr.includes('.') && numStr.split('.')[1].length > 2
        Rescaled(m, v) == IF Below50(v) /\ m.sep = "." /\ Len(m.frac) > 2
                          THEN TimesThousand(v) ELSE v
        \* value < 50 && /\d\.\d{1,3}/.test(numStr)
        Scaled(m, v) == Rescaled(m, IF Below50(v) /\ m.sep = "." /\ Len(m.frac) >= 1
                                    THEN TimesThousand(v) ELSE v)
        \* /^\d{1,3}\.\d{3}$/.test(numStr): the '.' is removed
        Thousands(m) == Scaled(m, IF m.sep = "." /\ Len(m.int) <= 3 /\ Len(m.frac) = 3
                                  THEN ParseFloat(m.int \o m.frac, <<>>)
                                  ELSE ParseFloat(m.int, m.frac))
        Value(m) == IF m = NoMatch THEN NoMatchValue ELSE Thousands(m)
    IN  IF txt = <<>> THEN NaN ELSE Value(NumberMatch(Cleaned(txt)))

\* the texts extractNumberFromString is called with: every text of at most
\* MaxLen characters (three digits, both separators, a blank, a letter, and P
\* for the label word Price / Cena), and the examples of the number rules
Texts ==
    LET Chars == {"0", "2", "8", ".", ",", " ", "x", "P"}
    IN  UNION {[1..k -> Chars] : k \in 0..MaxLen}
          \cup { <<"8", ".", "4", "0", "0">>,
                 <<"5", ",", "0", "0", "2">>,
                 <<"1", ".", "0", "2", "0", "4", "4", "2">>,
                 <<"0", ".", "0", "0", "1", "2">>,
                 <<"P", "x", " ", "x", "x", "x">>,
                 <<" ", "1", "2", "0", ",", "5", "0", " ", "x">>,
                 <<"x", ",", " ", "5", ",", "0", "0", "2">> }

\* no call of the locator is in progress
InitTextIdle ==
    /\ x_arg = <<>>
    /\ x_val = NaN

\* extractNumberFromString is about to be called with some text
InitExtract ==
    /\ x_arg \in Texts
    /\ x_val = NoVal

\* the call of extractNumberFromString
Extract ==
    /\ x_val = NoVal
    /\ x_val' = ExtractNumberFromString(x_arg)
    /\ UNCHANGED x_arg
    /\ TextFrame

NextExtract ==
    \/ Extract

\* ---- autodetectPriceFromPage and the text patterns of fetchPriceForTicker ----
\* a page is what the strategies see of it: the texts of the elements the
\* three XPath queries return, in document order, and document.body.innerText
\* [^\d\n\r]{0,30}
NEAR_GAP == 30

\* [0-9]{1,6}
MAX_FRACTION == 6

\* fetchPriceForTicker threw 'Could not extract price ...'
Rejected == [val |-> NaN, strat |-> 0, cand |-> 0, calls |-> 0]

\* a price with where it came from: the strategy, the position of the
\* candidate in it, and the number of candidates read up to then
Found(v, s, i, n) == [val |-> v, strat |-> s, cand |-> i, calls |-> n]

LastNumeric(cands) ==
    IF \A i \in 1..Len(cands) : ExtractNumberFromString(cands[i]) = NaN THEN 0
    ELSE CHOOSE i \in 1..Len(cands) :
            /\ ExtractNumberFromString(cands[i]) # NaN
            /\ \A j \in (i + 1)..Len(cands) : ExtractNumberFromString(cands[j]) = NaN

\* for (const el of els) { ...; if (!isNaN(num)) return num; }: the position
\* of the candidate whose number is returned, 0 when the loop ends without one
FirstNumeric(cands) ==
    IF \A i \in 1..Len(cands) : ExtractNumberFromString(cands[i]) = NaN THEN 0
    ELSE CHOOSE i \in 1..Len(cands) :
            /\ ExtractNumberFromString(cands[i]) # NaN
            /\ \A j \in 1..(i - 1) : ExtractNumberFromString(cands[j]) = NaN

\* ([0-9]+[.,][0-9]{1,6}) at the start of s
TokenAt(s) ==
    LET Token(int, rest, frac) ==
            IF int # <<>> /\ rest # <<>> /\ Head(rest) \in {".", ","} /\ frac # <<>>
            THEN [int |-> int, sep |-> Head(rest),
                  frac |-> SubSeq(frac, 1, IF Len(frac) > MAX_FRACTION
                                           THEN MAX_FRACTION ELSE Len(frac))]
            ELSE NoMatch
        After(int, rest) == Token(int, rest, IF rest = <<>> THEN <<>> ELSE DigitRun(Tail(rest)))
        From(int) == After(int, SubSeq(s, Len(int) + 1, Len(s)))
    IN  From(DigitRun(s))

\* body.match(/([0-9]+[.,][0-9]{1,6})/): the leftmost token
RECURSIVE FirstToken(_)
FirstToken(s) ==
    LET Or(r, t) == IF t # NoMatch THEN t
                    ELSE FirstToken(SubSeq(r, Len(DigitRun(r)) + 1, Len(r)))
        From(r) == IF r = <<>> THEN NoMatch ELSE Or(r, TokenAt(r))
    IN  From(FromFirstDigit(s))

\* body.match(/(?:Price|Cena)[^\d\n\r]{0,30}([0-9]+[.,][0-9]{1,6})/i): the
\* token after the leftmost label that has one
RECURSIVE NearToken(_)
NearToken(s) ==
    LET RECURSIVE GapRun(_)
        GapRun(r) ==
            IF r # <<>> /\ ~IsDigit(Head(r)) /\ Head(r) # "\n"
            THEN <<Head(r)>> \o GapRun(Tail(r)) ELSE <<>>
        Or(gap, t) == IF Len(gap) <= NEAR_GAP /\ t # NoMatch THEN t
                      ELSE NearToken(Tail(s))
        After(gap) == Or(gap, TokenAt(SubSeq(s, Len(gap) + 2, Len(s))))
    IN  IF s = <<>> THEN NoMatch
        ELSE IF Head(s) # "P" THEN NearToken(Tail(s))
        ELSE After(GapRun(Tail(s)))

\* autodetectPriceFromPage, then the two patterns on the body text
FetchOutcome(pg) ==
    LET all == Len(pg.s1) + Len(pg.s2) + Len(pg.s3)
        Patterns(near, first) ==
            IF near # NoMatch THEN Found(ParseFloat(near.int, near.frac), 4, 0, all)
            ELSE IF first # NoMatch THEN Found(ParseFloat(first.int, first.frac), 5, 0, all)
            ELSE Rejected
        Strategies(i1, i2, i3) ==
            IF i1 > 0 THEN Found(ExtractNumberFromString(pg.s1[i1]), 1, i1, i1)
            ELSE IF i2 > 0
            THEN Found(ExtractNumberFromString(pg.s2[i2]), 2, i2, Len(pg.s1) + i2)
            ELSE IF i3 > 0
            THEN Found(ExtractNumberFromString(pg.s3[i3]), 3, i3,
                       Len(pg.s1) + Len(pg.s2) + i3)
            ELSE Patterns(NearToken(pg.body), FirstToken(pg.body))
    IN  Strategies(FirstNumeric(pg.s1), FirstNumeric(pg.s2), FirstNumeric(pg.s3))

\* body texts: empty, without a number, a number after the label, a number
\* and no label, a label whose line has no number, an integer after the label
Bodies ==
    { <<>>,
      <<"P", "x">>,
      <<"x", "2", ".", "0", " ", "P", ":", " ", "2", ",", "8">>,
      <<"x", " ", "0", ".", "2">>,
      <<"2", ".", "0", " ", "P", "\n", "8", ".", "2">>,
      <<"P", " ", "2", "8", " ", "0", ",", "2", "8">> }

\* fetchPriceForTicker has loaded some page and no selector is configured:
\* every query returns up to MaxCands elements, each with a text without a
\* number or with one
InitLocate ==
    /\ LET CandTexts == { <<"x">>, <<"8", ".", "4">> }
           CandLists == UNION {[1..k -> CandTexts] : k \in 0..MaxCands}
       IN  x_arg \in [s1 : CandLists, s2 : CandLists, s3 : CandLists, body : Bodies]
    /\ x_val = NoVal

\* autodetectPriceFromPage and the fallback patterns, to the return or throw
Locate ==
    /\ x_val = NoVal
    /\ x_val' = FetchOutcome(x_arg)
    /\ UNCHANGED x_arg
    /\ TextFrame

NextLocate ==
    \/ Locate

(***************************************************************************)
(* startPeriodicTask: the loop around taskFn                               *)
(* (src/Functions/functions.improved.cjs.bak)                              *)
(***************************************************************************)
\* startPeriodicTask has not been called
NoLoop == [pc |-> "none", stopped |-> FALSE, running |-> 0, log |-> <<>>]

CalledNotAwaited(l) == [l EXCEPT !.pc = "sleep", !.running = @ + 1]

\* await taskFn(): the task is called and the loop waits for it to settle
Called(l) == [l EXCEPT !.pc = "task", !.running = @ + 1]

\* the task settled with outcome o: the loop, when it awaits the task, goes
\* on to await new Promise(r => setTimeout(r, seconds * 1000))
Settled(l, o) ==
    [l EXCEPT !.running = @ - 1, !.log = Append(@, o),
              !.pc = IF @ = "task" THEN "sleep" ELSE @]

InitLoopIdle == loop = NoLoop

\* startPeriodicTask(taskFn, seconds) has returned the stop function: loop()
\* ran up to its first await
InitLoop == loop = Called(NoLoop)

\* taskFn() resolved
TaskResolve ==
    /\ loop.running > 0
    /\ loop' = Settled(loop, "ok")
    /\ TaskFrame

\* taskFn() rejected (or threw): catch (e) { console.error(...) }
TaskReject ==
    /\ loop.running > 0
    /\ loop' = Settled(loop, "error")
    /\ TaskFrame

\* the timeout fired: while (!stopped) is tested; the next pass starts or
\* loop() returns
SleepOver ==
    /\ loop.pc = "sleep"
    /\ IF loop.stopped
       THEN loop' = [loop EXCEPT !.pc = "exited"]
       ELSE /\ Len(loop.log) + loop.running < MaxRuns
            /\ loop' = Called(loop)
    /\ TaskFrame

\* the function returned by startPeriodicTask is called: stopped = true
StopTask ==
    /\ ~loop.stopped
    /\ loop' = [loop EXCEPT !.stopped = TRUE]
    /\ TaskFrame

NextPeriodic ==
    \/ TaskResolve
    \/ TaskReject
    \/ SleepOver
    \/ StopTask

(***************************************************************************)
(* Specifications: one per component                                       *)
(***************************************************************************)
InitSpecFetch ==
    InitFetch /\ InitPool /\ InitImap /\ InitPricesIdle /\ InitNewsIdle /\ InitTextIdle /\ InitLoopIdle

SpecFetch == InitSpecFetch /\ [][NextFetch]_vars

InitSpecPool ==
    InitPool /\ InitFetchIdle /\ InitImap /\ InitPricesIdle /\ InitNewsIdle /\ InitTextIdle /\ InitLoopIdle

SpecPool == InitSpecPool /\ [][NextPool]_vars

\* the pool with a browser that can crash and a close that can fail
SpecPoolFaults == InitSpecPool /\ [][NextPoolFaults]_vars

InitSpecImap ==
    InitImap /\ InitFetchIdle /\ InitPool /\ InitPricesIdle /\ InitNewsIdle /\ InitTextIdle /\ InitLoopIdle

SpecImap == InitSpecImap /\ [][NextImap]_vars

\* timers fire and the handlers of settled promises run
FairSpecImap == SpecImap /\ WF_vars(TimerFire) /\ WF_vars(EndSettle)

InitSpecImapMail ==
    InitImapMail /\ InitFetchIdle /\ InitPool /\ InitPricesIdle /\ InitNewsIdle /\ InitTextIdle /\ InitLoopIdle

SpecImapMail == InitSpecImapMail /\ [][NextImapMail]_vars

InitRest == InitFetchIdle /\ InitPool /\ InitImap /\ InitTextIdle /\ InitLoopIdle

InitSpecOrch == InitPrices /\ InitNewsIdle /\ InitRest

\* one pass of checkTickersAndAlert
SpecOrch == InitSpecOrch /\ [][NextOrch]_vars

InitSpecPrices == InitPricesMail /\ InitNewsIdle /\ InitRest

\* a pass of checkTickersAndAlert and the mail handler, on one prices file
SpecPrices == InitSpecPrices /\ [][NextPrices]_vars

\* as SpecPrices, with a file system on which no writeFile or rename fails
\* for a reason of its own (a rename that finds no tmp still fails)
SpecSaves == InitSpecPrices /\ [][NextSaves]_vars

InitSpecExtract ==
    InitExtract /\ InitFetchIdle /\ InitPool /\ InitImap /\ InitPricesIdle /\ InitNewsIdle
        /\ InitLoopIdle

\* one call of extractNumberFromString
SpecExtract == InitSpecExtract /\ [][NextExtract]_vars

InitSpecLocate ==
    InitLocate /\ InitFetchIdle /\ InitPool /\ InitImap /\ InitPricesIdle /\ InitNewsIdle
        /\ InitLoopIdle

\* one run of the locator of fetchPriceForTicker without a selector
SpecLocate == InitSpecLocate /\ [][NextLocate]_vars

InitSpecNews == InitNews /\ InitPricesIdle /\ InitRest

\* the news tracker over its restarts
SpecNews == InitSpecNews /\ [][NextNews]_vars

InitSpecPasses == InitPricesPass /\ InitNewsFirstRun /\ InitRest

\* the pass of the price check and the passes of the news tracker
SpecPasses == InitSpecPasses /\ [][NextPasses]_vars

InitSpecNewsOverlap == InitNewsOverlap /\ InitPricesIdle /\ InitRest

InitSpecPeriodic ==
    InitLoop /\ InitFetchIdle /\ InitPool /\ InitImap /\ InitPricesIdle /\ InitNewsIdle
        /\ InitTextIdle

\* one call of startPeriodicTask and its stop function
SpecPeriodic == InitSpecPeriodic /\ [][NextPeriodic]_vars

\* the news tracker in one process, passes overlapping
SpecNewsOverlap == InitSpecNewsOverlap /\ [][NextNewsOverlap]_vars

(***************************************************************************)
(* Claims about the session and the page pool (checked under SpecPool)     *)
(***************************************************************************)
Holding(c) == c_pc[c] \in {"using", "reset", "close", "close2"}

\* C1 (as claimed): the free pool never holds more pages than the configured
\* capacity.
C1_PoolWithinCapacity == Len(pagePool) <= MaxPoolPages

\* C2 (as claimed): while a session is valid no launch replaces it: the
\* variable browser changes from a session only to null.
C2_SingleFlight ==
    [][(browser # NoBrowser) => (browser' = browser \/ browser' = NoBrowser)]_vars

\* C3: no page is held by two callers (using it or resetting/closing it in
\* releasePage), no held page is in the free pool, and no page is in the
\* free pool twice.
C3_ExclusiveOwnership ==
    /\ \A c1, c2 \in Callers :
          (c1 # c2 /\ Holding(c1) /\ Holding(c2)) => c_page[c1].id # c_page[c2].id
    /\ \A c \in Callers : Holding(c) =>
          \A i \in 1..Len(pagePool) : pagePool[i].id # c_page[c].id
    /\ \A i, j \in 1..Len(pagePool) : (i # j) => pagePool[i].id # pagePool[j].id

C3_Witness ==
    \E c1, c2 \in Callers :
        /\ c_pc[c1] = "using" /\ c_page[c1].src = "pool"
        /\ c_pc[c2] = "reset"

(***************************************************************************)
(* Claims about the mailbox watcher (checked under SpecImap, FairSpecImap) *)
(***************************************************************************)
AnyLive == \E c \in Conns : Live(c)

\* C9: while the watcher is not stopped it never rests without a live
\* connection, a connection attempt in flight or a pending reconnect timer;
\* and a pending reconnect timer leads to a new connection attempt (or to stop()).
C9_Reconnects ==
    /\ [](~stopped => (AnyLive \/ connecting > 0 \/ rTimers # {}))
    /\ ((~stopped /\ rTimers # {}) ~> (connecting > 0 \/ stopped))

C9_Witness ==
    /\ ~stopped /\ nconns >= 1 /\ ~AnyLive
    /\ connecting = 0 /\ rTimers # {} /\ reconnectAttempts >= 2

\* C10 (as claimed): at most one connection attempt (a connect() awaiting
\* imaps.connect) is in flight and at most one established connection is
\* open at any time.
C10_SingleConnection ==
    /\ connecting <= 1
    /\ Cardinality({c \in Conns : Live(c)}) <= 1

\* C11: once imaps.connect has resolved, reconnectAttempts is zero until the
\* next reconnect is scheduled, and the first reconnect scheduled after a
\* successful connect has the delay of the first reconnect ever scheduled,
\* whatever the number of failures before that connect.
C11_CounterReset ==
    /\ (nconns > 0 /\ schedAfterConnect = "none") => reconnectAttempts = 0
    /\ (schedAfterConnect = "first") =>
          (firstDelay # <<>> /\ lastDelay = firstDelay[1])

C11_Witness ==
    /\ nconns > 0 /\ longOutage
    /\ schedAfterConnect = "first" /\ rTimers # {}

\* C12: the counter stays within 0..MAX_RECONNECT; right after a reconnect was
\* scheduled its delay is positive and at most the cooldown (60 s), and the
\* counter is back at zero exactly when the cooldown was used, which is when
\* the counter had passed MAX_RECONNECT; below that the delay is at most the
\* cap (30 s).
C12_DelayBounded ==
    /\ reconnectAttempts \in 0..MAX_RECONNECT
    /\ (schedAfterConnect # "none") =>
          /\ lastDelay > 0
          /\ lastDelay <= RECONNECT_COOLDOWN_MS
          /\ (reconnectAttempts = 0) <=> (lastDelay = RECONNECT_COOLDOWN_MS)
          /\ (reconnectAttempts > 0) => lastDelay <= RECONNECT_CAP_MS

C12_Witness ==
    /\ schedAfterConnect # "none" /\ rTimers # {}
    /\ reconnectAttempts = 0 /\ lastDelay = RECONNECT_COOLDOWN_MS

\* C13 (as claimed): once stop() has been called no reconnect timer is pending
\* and no poll timer is active, and from then on no reconnect is scheduled
\* and no connection attempt is started, whatever arrives late.
C13_StopIsFinal ==
    /\ [](stopped => (rTimers = {} /\ pollTimers = {}))
    /\ [][stopped => (stopped' /\ rTimers' \subseteq rTimers /\ connecting' <= connecting)]_vars

\* C14: a mail handler call that throws is caught inside the tick: the step
\* that catches it moves the loop to the next message (the tick keeps
\* delivering while messages remain), schedules no reconnect and leaves the
\* poll timer alone; a tick ends only with the handler call for the last
\* message of its search result.
C14_HandlerIsolated ==
    /\ [][\A k \in TickSlots :
            (tick[k].phase = "deliver" /\ tick'[k].phase = "idle") =>
                tick[k].i + 1 = tick[k].results]_vars
    /\ [][\A k \in TickSlots : HandlerReject(k) =>
            /\ (tick[k].i + 1 < tick[k].results) =>
                  /\ tick'[k].phase = "deliver"
                  /\ tick'[k].i = tick[k].i + 1
                  /\ tick'[k].results = tick[k].results
            /\ UNCHANGED <<rTimers, reconnectTimer, reconnectAttempts, schedAfterConnect,
                           pollTimers, pollInterval>>]_vars

C14_Witness ==
    /\ \E k \in TickSlots :
          tick[k].phase = "deliver" /\ tick[k].errs >= 1 /\ tick[k].i < tick[k].results
    /\ ~stopped /\ pollTimers # {} /\ rTimers = {}

(***************************************************************************)
(* Claims about fetchWithRetries (checked under SpecFetch)                 *)
(***************************************************************************)

\* C4: a call makes at most `retries` attempts, and a call in which every
\* attempt failed transiently ends by throwing the last error after exactly
\* `retries` attempts.
C4_RetryBudget ==
    /\ attemptsMade <= retries
    /\ (f_pc = "thrown" /\ allTransient) =>
          (attemptsMade = retries /\ thrownErr = lastErr)

C4_Witness ==
    f_pc = "thrown" /\ allTransient /\ retries >= 3 /\ Len(waits) >= 2

\* C5: a failure that is not classified transient ends the call on that
\* attempt: the call has thrown that error, and no sleep followed it (the
\* sleeps are those of the earlier attempts only).
C5_PermanentShortCircuit ==
    (lastErr # NoErr /\ ~IsTransient(lastErr)) =>
        /\ f_pc = "thrown"
        /\ thrownErr = lastErr
        /\ Len(waits) = attemptsMade - 1

C5_Witness ==
    /\ lastErr # NoErr /\ ~IsTransient(lastErr)
    /\ f_pc = "thrown" /\ attemptsMade >= 2 /\ attemptsMade < retries

\* C6 (as claimed): a 4xx response is not retried (the call ends on that
\* attempt, no sleep), while a 5xx response, a connection reset, a broken
\* pipe and a timeout/abort are retried while attempts remain.
C6_Classification ==
    /\ (lastStatus \in 400..499) =>
          (f_pc = "thrown" /\ Len(waits) = attemptsMade - 1)
    /\ ( /\ f_pc = "thrown"
         /\ \/ lastStatus \in 500..599
            \/ lastErr.code \in {"ECONNRESET", "EPIPE", "ETIMEDOUT"}
            \/ lastErr = AbortError ) => attemptsMade = retries

\* C7: the k-th sleep is min(10000, 1000 * 2^(k-1)) plus an integer jitter in
\* [0, 500); the non-jitter part never decreases and never exceeds 10000.
C7_Backoff ==
    \A k \in 1..Len(waits) :
        /\ waits[k].base = Min2(10000, 1000 * Pow2(k - 1))
        /\ waits[k].jitter \in 0..499
        /\ waits[k].base <= 10000
        /\ (k > 1 => waits[k - 1].base <= waits[k].base)

C7_Witness ==
    Len(waits) >= 5 /\ waits[5].jitter = 499 /\ waits[1].jitter = 0

HasMail(t) == \E i \in 1..Len(mails) : mails[i].t = t

\* the iteration of the pass for subject t is over
InLog(t) == \E i \in 1..Len(o_log) : o_log[i] = t

\* the pass extracted the price of t and is past its alert branch
Decided(t) ==
    /\ o_results[t].kind = "ok"
    /\ InLog(t) \/ (o_pc = "save" /\ tickers[o_idx] = t)

\* (q - p) / p * 100 >= up or <= -down, for p > 0
Crossed(p, q) ==
    \/ (q - p) * 100 >= up * p
    \/ (q - p) * 100 <= -(down * p)

\* the prices file holds price q for subject t
FileHas(t, q) ==
    /\ ReadFile(fsName, fsData).st = "full"
    /\ ReadFile(fsName, fsData).data[t] = q

\* C16: for a subject with prior price p (not null, not 0) and extracted
\* price q, an alert mail is sent exactly when (q-p)/p*100 >= up or <= -down;
\* 100 -> 106 at 5% gives a mail with 6.00, 100 -> 94 at 5% a mail with -6.00,
\* and 100 -> 102 at 5%/5% gives no mail while the recorded and the saved
\* price become 102.
C16_AlertExactlyAtThreshold ==
    \A t \in Tickers :
        LET r == o_results[t]
        IN  (Decided(t) /\ r.prev # Null /\ r.prev # 0) =>
              /\ HasMail(t) <=> Crossed(r.prev, r.price)
              /\ \A i \in 1..Len(mails) :
                    (mails[i].t = t) =>
                      /\ mails[i].prev = r.prev /\ mails[i].price = r.price
                      /\ (mails[i].dir = "up") <=> ((r.price - r.prev) * 100 >= up * r.prev)
              /\ (r.prev = 100 /\ r.price = 106 /\ up = 5) =>
                    \E i \in 1..Len(mails) :
                        /\ mails[i].t = t /\ mails[i].dir = "up" /\ mails[i].pct = 5
                        /\ mails[i].change = [neg |-> FALSE, int |-> 6, frac |-> 0]
              /\ (r.prev = 100 /\ r.price = 94 /\ up = 5 /\ down = 5) =>
                    \E i \in 1..Len(mails) :
                        /\ mails[i].t = t /\ mails[i].dir = "down" /\ mails[i].pct = 5
                        /\ mails[i].change = [neg |-> TRUE, int |-> 6, frac |-> 0]
              /\ (r.prev = 100 /\ r.price = 102 /\ up = 5 /\ down = 5) =>
                    /\ ~HasMail(t)
                    /\ pricesState[t] = 102
                    /\ (InLog(t) /\ Orch \in sv_saved) => FileHas(t, 102)

\* a pass over 100 -> 106 (mail with 6.00) and 100 -> 102 (no mail, 102 saved)
C16_Witness ==
    /\ o_pc = "done" /\ up = 5 /\ down = 5
    /\ \E t1, t2 \in Tickers :
          /\ o_results[t1] = OkResult(106, 100, PctChange(100, 106))
          /\ o_results[t2] = OkResult(102, 100, PctChange(100, 102))
          /\ HasMail(t1) /\ ~HasMail(t2)
          /\ mails[1].change = [neg |-> FALSE, int |-> 6, frac |-> 0]
          /\ pricesState[t2] = 102 /\ FileHas(t2, 102)

\* C17: after a successful extraction the pass records and saves the new
\* price of the subject before the iteration ends, whether or not a mail was
\* due or delivered.
C17_AlwaysPersisted ==
    [][(o_price # Null /\ Len(o_log') > Len(o_log)) =>
          /\ pricesState'[tickers[o_idx]] = o_price
          /\ ReadFile(fsName', fsData').st = "full"
          /\ ReadFile(fsName', fsData').data[tickers[o_idx]] = o_price]_vars

\* an alert about subject t is due by the result of the pass
Due(t) ==
    /\ o_results[t].prev # Null
    /\ o_results[t].prev # 0
    /\ Crossed(o_results[t].prev, o_results[t].price)

\* C18: a stored price is changed only by a cycle whose extraction succeeded
\* and whose due mail was delivered: a cycle that ends with an error result
\* has assigned no price and called no save, the in-memory price changes only
\* in a step that records a successful cycle, and the prices file changes
\* only while a save of such a cycle writes or renames.
C18_ChangedOnlyAfterSuccess ==
    /\ [](\A t \in Tickers :
            /\ (o_results[t].kind = "error") => t \notin o_mut
            /\ (w_results[t].kind = "error") => t \notin w_mut
            /\ (t \in o_mut) => (o_results[t].kind = "ok" /\ (Due(t) => HasMail(t)))
            /\ (t \in w_mut) => w_results[t].kind = "ok")
    /\ [](/\ (sv_pc[Orch] # "idle") => (o_pc = "save" /\ tickers[o_idx] \in o_mut)
          /\ \A w \in Workers :
                (sv_pc[w] # "idle") => (w_pc[w] = "save" /\ w_t[w] \in w_mut))
    /\ [][/\ \A t \in Tickers :
               (pricesState'[t] # pricesState[t]) =>
                  \/ (t \in o_mut' /\ o_results'[t].kind = "ok"
                        /\ pricesState'[t] = o_results'[t].price)
                  \/ (t \in w_mut' /\ w_results'[t].kind = "ok"
                        /\ pricesState'[t] = w_results'[t].price)
          /\ (ReadFile(fsName', fsData') # ReadFile(fsName, fsData)) =>
                \E s \in Savers : sv_pc[s] \in {"write", "rename"}]_vars

\* the mail about subject 1 was rejected: error result, price 100 kept in
\* memory and in the file; the mail about subject 2 was delivered and 106 is
\* recorded and saved
C18_Witness ==
    /\ o_pc = "done"
    /\ o_results[1] = ErrorResult("mail")
    /\ pricesState[1] = 100 /\ FileHas(1, 100)
    /\ o_results[2].kind = "ok" /\ 2 \in o_mut /\ HasMail(2)
    /\ pricesState[2] = 106 /\ FileHas(2, 106)
    /\ w_results[1] = NoResult

\* C15: the pass of checkTickersAndAlert takes the subjects one at a time in
\* list order; a subject whose cycle failed has an error result, and the pass
\* still reaches every later subject; the pass of the news tracker over its
\* URLs goes on in the same way after a failed URL.
C15_PassIsolation ==
    /\ Len(o_log) <= NumTickers
    /\ \A i \in 1..Len(o_log) : o_log[i] = tickers[i]
    /\ (o_pc \in {"fetch", "mail", "save"}) => o_idx = Len(o_log) + 1
    /\ \A t \in Tickers :
          /\ (o_results[t].kind # "none") =>
                (InLog(t) \/ (o_pc \in {"mail", "save"} /\ tickers[o_idx] = t))
          /\ (InLog(t) /\ t \notin o_mut) => o_results[t].kind = "error"
    /\ (o_pc = "done") =>
          /\ Len(o_log) = NumTickers
          /\ \A t \in Tickers : o_results[t].kind # "none"
    /\ \A p \in Passes :
          /\ Len(n_log[p]) <= NumTickers
          /\ \A i \in 1..Len(n_log[p]) : n_log[p][i] = urls[i]
          /\ (n_pc[p] \notin {"idle", "off"}) => n_idx[p] = Len(n_log[p]) + 1
          /\ (n_pc[p] = "idle" /\ n_log[p] # <<>>) => Len(n_log[p]) = NumTickers
          /\ \A u \in n_failed[p] : \E i \in 1..Len(n_log[p]) : n_log[p][i] = u

\* both passes are over after their first subject / URL failed, and the
\* second was processed without failure
C15_Witness ==
    /\ o_pc = "done"
    /\ o_results[1].kind = "error" /\ o_results[2].kind = "ok" /\ 2 \in o_mut
    /\ n_pc[1] = "idle" /\ Len(n_log[1]) = NumTickers
    /\ 1 \in n_failed[1] /\ 2 \notin n_failed[1] /\ \E it \in Items : notified[it] = 1

(***************************************************************************)
(* Claims about the news tracker (checked under SpecNews)                  *)
(***************************************************************************)
\* C19: an item that is in the seen-set when its row is read is neither
\* downloaded nor announced nor written, and a notification about an item is
\* sent only while the item is not in the seen-set; restarts included.
C19_SeenIsSilent ==
    /\ [](\A p \in Passes :
            (n_pc[p] \in {"download", "send", "open", "write"}) => ~n_wasSeen[p])
    /\ [][\A it \in Items :
             (notified'[it] # notified[it]) =>
                 \E p \in Passes :
                    /\ n_pc[p] = "send" /\ n_pc'[p] # "send"
                    /\ it = n_item[p] /\ ~n_wasSeen[p] /\ it \notin seenSet]_vars

\* after a restart the row of an item that was announced once is read again:
\* the item is in the reloaded seen-set and the iteration is over
C19_Witness ==
    /\ restarted /\ n_wasSeen[1] /\ n_item[1] \in seenSet
    /\ notified[n_item[1]] = 1
    /\ Len(n_log[1]) >= 1 /\ n_failed[1] = {}

\* C20: the prices file and the seen-set file are replaced by rename only:
\* whoever reads one of them finds a complete content (or, for the seen-set
\* file before its first save, no file).
C20_AtomicReplace ==
    /\ ReadFile(fsName, fsData).st = "full"
    /\ seenFile.st \in {"absent", "full"}

(***************************************************************************)
(* Further claims about the mailbox watcher (SpecImap, SpecImapMail)       *)
(***************************************************************************)

\* C28: the delay of the reconnect scheduled for the k-th consecutive failure
\* (k = reconnectAttempts after the increment, k <= MAX_RECONNECT_ATTEMPTS)
\* is min(30000, 1000 * 2^(k-1)) ms.
C28_DelayFormula ==
    (schedAfterConnect # "none" /\ reconnectAttempts > 0) =>
        lastDelay = Min2(RECONNECT_CAP_MS,
                         RECONNECT_BASE_MS * Pow2(reconnectAttempts - 1))

\* C29: a poll tick searches only on the open connection, and when its search
\* fails while the watcher is not stopped, the step that catches the error
\* stops polling (no poll timer stays active), leaves the connection it
\* closes not open, and leaves a reconnect timer armed.
C29_FailedPollReconnects ==
    /\ [][(searching' # searching /\ searching \subseteq searching') =>
              (connection # NoConn /\ status[connection] = "open")]_vars
    /\ [][(~stopped /\ \E c \in Conns : PollSearchReject(c)) =>
              /\ pollInterval' = NoTimer
              /\ pollTimers' = {}
              /\ reconnectTimer' # NoTimer
              /\ reconnectTimer' \in rTimers'
              /\ connection # NoConn => status'[connection] # "open"]_vars

\* a tick has delivered mail on the only connection made so far, no
\* connection event was emitted, and a reconnect is armed with polling off:
\* only a failed search can have scheduled it
C29_Witness ==
    /\ ~stopped /\ nconns = 1 /\ evLeft = 0
    /\ \E k \in TickSlots : tick[k].phase = "deliver"
    /\ schedAfterConnect = "first"
    /\ reconnectTimer \in rTimers /\ pollTimers = {}

\* C30: the messages of a tick are handed to the handler one after the other,
\* each call awaited before the next: at no time are two handler calls in
\* progress.
C30_OneHandlerAtATime ==
    Cardinality({k \in TickSlots : tick[k].phase = "deliver"}) <= 1

(***************************************************************************)
(* Further claims about the price check (SpecOrch, SpecSaves)              *)
(***************************************************************************)

\* C27: when fetchPriceForTicker finds no price it rejects, and the step of
\* the pass that catches this records an error result without a price for the
\* subject, leaves every stored price and the prices file as they are, sends
\* no mail and goes on to the next subject (or ends the pass after the last
\* one); a subject with such a result never got a mail or a new price in
\* that pass.
C27_NoPriceOutcome ==
    /\ [](\A t \in Tickers :
            (o_results[t].kind = "error" /\ o_results[t].error = "fetch") =>
                /\ o_results[t].price = Null
                /\ t \notin o_mut
                /\ ~HasMail(t))
    /\ [][OrchFetchFail =>
            /\ o_results'[tickers[o_idx]].kind = "error"
            /\ o_results'[tickers[o_idx]].price = Null
            /\ UNCHANGED <<pricesState, mails, fsName, fsData>>
            /\ o_idx' = o_idx + 1
            /\ o_pc' = IF o_idx < NumTickers THEN "fetch" ELSE "done"]_vars

\* the pass is over: no price was found for the first subject, and the second
\* got its alert
C27_Witness ==
    /\ o_pc = "done"
    /\ o_results[1].kind = "error" /\ o_results[1].error = "fetch"
    /\ ~HasMail(1) /\ 1 \notin o_mut
    /\ o_results[2].kind = "ok" /\ HasMail(2)

\* C21: no update of the prices file is lost: once no savePrices call is in
\* progress and at least one was made, a prices file that holds a whole
\* snapshot holds the prices as they are in memory (the state at the most
\* recent savePrices call).
C21_NoLostUpdate ==
    ( /\ \A s \in Savers : sv_pc[s] = "idle"
      /\ o_mut \cup w_mut # {}
      /\ ReadFile(fsName, fsData).st = "full" ) =>
        ReadFile(fsName, fsData).data = pricesState

(***************************************************************************)
(* Further claims about the session and the page pool (SpecPool,           *)
(* SpecPoolFaults)                                                         *)
(***************************************************************************)

\* C22: when browser.newPage or the reset of a page fails on the shared
\* session because that session has crashed, the step that handles the
\* failure invalidates the session (browser is no longer that session), so
\* that the next getPage launches a new one.
C22_CrashInvalidates ==
    [][\A c \in Callers :
          ( /\ NewPageFail(c) \/ ResetFail(c)
            /\ c_page[c].sess = browser
            /\ browser \notin alive ) => browser' # browser]_vars

\* C23: every page in the pool is blank; a page whose reset failed is closed
\* without entering the pool; every path of releasePage ends with the caller
\* back in control without the page.
C23_PooledPagesAreBlank ==
    /\ [](\A i \in 1..Len(pagePool) : pagePool[i].blank)
    /\ [][\A c \in Callers :
            /\ ResetFail(c) => (pagePool' = pagePool /\ c_pc'[c] = "close2")
            /\ (c_pc[c] = "close2") =>
                  \A i \in 1..Len(pagePool') : pagePool'[i].id # c_page[c].id
            /\ (c_pc[c] \in {"reset", "close", "close2"} /\ c_pc'[c] # c_pc[c]) =>
                  \/ c_pc'[c] = "close2"
                  \/ (c_pc'[c] = "idle" /\ c_page'[c] = NoPage)]_vars

\* a page that was used and reset is in the pool, and the reset of another
\* page has failed
C23_Witness ==
    /\ Len(pagePool) > 0
    /\ \E c \in Callers : c_pc[c] = "close2" /\ c_page[c].src = "pool"

\* C24: the step that ends closeBrowser leaves browser = null and an empty
\* pool, whether browser.close() resolved or rejected; a page that a caller
\* held when closeBrowser ended is never pushed into the pool while browser
\* is a later session; getPage called with browser = null launches a session.
C24_ShutdownLeavesNothing ==
    /\ [][(sd_pc.pc = "closing" /\ sd_pc'.pc = "idle") =>
              (browser' = NoBrowser /\ pagePool' = <<>>)]_vars
    /\ [][\A c \in Callers :
            (GetPageCall(c) /\ browser = NoBrowser) => c_pc'[c] = "launch"]_vars
    /\ [][\A c \in Callers :
            (ResetDone(c) /\ c_page[c].shut) =>
                (browser = NoBrowser \/ browser = c_page[c].sess)]_vars

(***************************************************************************)
(* Claims about the price locator (SpecExtract, SpecLocate)                *)
(***************************************************************************)
\* the number v equals n / d
IsNumber(v, n, d) == v.den > 0 /\ v.num * d = n * v.den

HasNumeric(cands) ==
    \E i \in 1..Len(cands) : ExtractNumberFromString(cands[i]) # NaN

\* the candidates of query result cands before position i hold no number
NoneBefore(cands, i) ==
    \A j \in 1..(i - 1) : ExtractNumberFromString(cands[j]) = NaN

TokenText(t) == t.int \o <<t.sep>> \o t.frac

\* C31: the price returned is the value extractNumberFromString gives for the
\* candidate text it came from, for every strategy: the candidate of query 1,
\* 2 or 3 that was taken, or the token matched by body pattern 4 or 5.
C31_SameRules ==
    (x_val # NoVal /\ x_val.strat # 0) =>
        x_val.val = ExtractNumberFromString(
            CASE x_val.strat = 1 -> x_arg.s1[x_val.cand]
              [] x_val.strat = 2 -> x_arg.s2[x_val.cand]
              [] x_val.strat = 3 -> x_arg.s3[x_val.cand]
              [] x_val.strat = 4 -> TokenText(NearToken(x_arg.body))
              [] x_val.strat = 5 -> TokenText(FirstToken(x_arg.body)))

\* C32: a matched number below 50 with a '.' and more than 3 fractional
\* digits is returned multiplied by 1000 exactly once; "0.0012" gives 1.2.
C32_ScaledOnce ==
    LET Once(m) ==
            (m # NoMatch /\ m.sep = "." /\ Len(m.frac) > 3
                /\ Below50(ParseFloat(m.int, m.frac))) =>
                x_val = TimesThousand(ParseFloat(m.int, m.frac))
    IN  (x_val # NoVal) =>
            /\ Once(NumberMatch(Cleaned(x_arg)))
            /\ (x_arg = <<"0", ".", "0", "0", "1", "2">>) => IsNumber(x_val, 12, 10)

(***************************************************************************)
(* Claims about fetchWithRetries (SpecFetch)                               *)
(***************************************************************************)
\* C33: a call of fetchWithRetries that has ended made at least one request,
\* and when it ended by throwing, the error thrown is the error of a request
\* it made (never the initial null), for every configured retry count.
C33_AtLeastOneAttempt ==
    (f_pc \in {"returned", "thrown"}) =>
        /\ attemptsMade >= 1
        /\ (f_pc = "thrown") => thrownErr # NoErr

(***************************************************************************)
(* Claims about the pages of fetchPriceForTicker (SpecPool)                *)
(***************************************************************************)
\* C34: a caller that got a page leaves its try block only through
\* releasePage, and holds no page when its call is over; the page it gives up
\* has been pushed into the pool or had close() called on it; and a page
\* leaves the pool only by being handed to a caller or with its session
\* closed, so that every page created is in the pool or closed when no fetch
\* is in progress.
C34_EveryPageReleased ==
    /\ [](\A c \in Callers : (c_pc[c] = "idle") => (c_page[c] = NoPage))
    /\ [][\A c \in Callers :
            (c_pc[c] = "using" /\ c_pc'[c] # "using") => ReleasePage(c)]_vars
    /\ [][\A c \in Callers :
            (c_page[c].id # 0 /\ c_pc[c] # "idle" /\ c_pc'[c] = "idle") =>
                \/ c_pc[c] \in {"close", "close2"}
                \/ /\ c_pc[c] = "reset"
                   /\ \E j \in 1..Len(pagePool') : pagePool'[j].id = c_page[c].id]_vars
    /\ [][\A i \in 1..Len(pagePool) :
            (\A j \in 1..Len(pagePool') : pagePool'[j].id # pagePool[i].id) =>
                \/ \E c \in Callers :
                      c_pc'[c] = "using" /\ c_page'[c].id = pagePool[i].id
                \/ pagePool[i].sess \notin alive']_vars

(***************************************************************************)
(* Claims about the mailbox watcher after stop() and over its timers       *)
(***************************************************************************)
\* C35: once stop() has been called and no connect, openBox, search or
\* end() call is in flight any more, no connection is open and no poll timer
\* is active.
C35_StopEndsEverything ==
    (stopped /\ connecting = 0 /\ opening = {} /\ searching = {} /\ pendingEnds = 0) =>
        (~AnyLive /\ pollTimers = {})

\* C36: an event (error, close, end, failed search) of a connection whose
\* loss has been counted already (it is no longer open) leaves the counter
\* of consecutive failures alone, so one lost connection counts once.
C36_OneCountPerLoss ==
    [][\A c \in Conns :
        ((OnError(c) \/ OnClose(c) \/ OnEnd(c) \/ PollSearchReject(c)) /\ ~Live(c)) =>
            reconnectAttempts' = reconnectAttempts]_vars

\* C37: at most one reconnect timer is pending and at most one poll timer is
\* active, and the pending or active one is the one the watcher holds the
\* handle of.
C37_OneTimerOfAKind ==
    /\ Cardinality(rTimers) <= 1
    /\ Cardinality(pollTimers) <= 1
    /\ rTimers \subseteq {reconnectTimer}
    /\ pollTimers \subseteq {pollInterval}

\* a reconnect timer is pending while the poll timer of a later connection is
\* active, after more than one reconnect was scheduled
C37_Witness ==
    /\ ~stopped /\ nconns = 2
    /\ Cardinality(rTimers) = 1 /\ Cardinality(pollTimers) = 1
    /\ reconnectAttempts >= 1

(***************************************************************************)
(* Claims about the news tracker with overlapping passes (SpecNewsOverlap) *)
(***************************************************************************)
\* C38: in one process at most one notification is sent about each item,
\* whatever passes run and however they overlap.
C38_OneNotificationPerItem ==
    \A it \in Items : notified[it] <= 1

C40_OnePassAtATime ==
    /\ [](loop.running <= 1)
    /\ [][loop'.running > loop.running
            => (loop.pc = "sleep" /\ loop.running = 0 /\ ~loop.stopped)]_vars
    /\ [][TaskReject => (loop'.pc = "sleep" /\ loop'.running = 0)]_vars
    /\ [](loop.pc = "exited" => loop.stopped)

\* a pass threw, later passes ran, and the loop ended after stop
C40_Witness ==
    /\ loop.pc = "exited"
    /\ loop.stopped
    /\ Len(loop.log) >= 3
    /\ loop.log[1] = "error"
    /\ loop.log[3] = "ok"

====
